---------------------------- MODULE Spec2Model ----------------------------
(***************************************************************************)
(* Model of the Cocktail literal analyzers.                                *)
(*                                                                         *)
(*   - LexedNumericLiteral (lib/Lexer/NumericLiteral.cc): Lex, the Parser  *)
(*     checks and ComputeValue.                                            *)
(*   - LexedStringLiteral (lib/Lexer/StringLiteral.cc): Lex and            *)
(*     ComputeValue with escape expansion and indent removal.              *)
(*                                                                         *)
(* Text is a sequence of one-character strings.  Offsets are 0-based, as   *)
(* in the source; At(s, i) reads the character at offset i.  A diagnostic  *)
(* is a record [kind, loc, radix] whose loc is the offset of the reported  *)
(* character in the lexeme's text.                                         *)
(***************************************************************************)
EXTENDS Integers, Sequences, FiniteSets, TLC

VARIABLES
    source_text,   \* the characters handed to Lex
    pc,            \* the operation that runs next
    literal,       \* the LexedNumericLiteral returned by Lex (some = FALSE: llvm::None)
    value,         \* the LexedNumericLiteral::Value returned by ComputeValue
    str_literal,   \* the LexedStringLiteral returned by Lex (some = FALSE: llvm::None)
    str_value,     \* the bytes returned by LexedStringLiteral::ComputeValue
    diags,         \* the diagnostics emitted so far, in emission order
    node_impls,    \* ParseTree::node_impls: the nodes in postorder
    has_errors,    \* ParseTree::has_errors
    tree_out,      \* what the last operation on the parse tree gave
    expansion      \* ExpandEscapeSequencesAndRemoveIndent, followed pass by pass

vars ==
    <<source_text, pc, literal, value, str_literal, str_value, diags,
      node_impls, has_errors, tree_out, expansion>>

\* The parse tree variables, which the literal analyzers leave alone.
tree_vars == <<node_impls, has_errors, tree_out>>

\* ExpandEscapeSequencesAndRemoveIndent is not being followed.
NoExpansion ==
    [phase |-> "None", content |-> <<>>, escape |-> <<>>, indent |-> <<>>,
     st |-> [contents |-> <<>>, off |-> 0, result |-> <<>>, diags |-> <<>>,
             check_failed |-> FALSE]]

\* No operation has run on the parse tree yet.
NoTreeOutput ==
    [op |-> "None", n |-> -1, status |-> "None", nodes |-> <<>>, ok |-> FALSE,
     finished |-> FALSE, ancestors |-> <<>>, lines |-> <<>>,
     assert_failed |-> FALSE]

---------------------------------------------------------------------------
(* llvm::StringRef helpers *)

Min(a, b) == IF a < b THEN a ELSE b

At(s, i) == s[i + 1]

\* StringRef::substr(Start, N): Start and N are clamped to the string; N is a
\* size_t, so a negative count is a huge one.
Substr(s, start, n) ==
    LET st  == Min(start, Len(s))
        cnt == IF n < 0 THEN Len(s) - st ELSE Min(n, Len(s) - st)
    IN  SubSeq(s, st + 1, st + cnt)

SubstrFrom(s, start) == Substr(s, start, -1)

StartsWith(s, p) == Len(s) >= Len(p) /\ SubSeq(s, 1, Len(p)) = p

DropFront(s, n) == SubSeq(s, n + 1, Len(s))

\* All texts over an alphabet with lo..hi characters.
Texts(alphabet, lo, hi) == UNION {[1..k -> alphabet] : k \in lo..hi}

---------------------------------------------------------------------------
(* Character classes (Cocktail/Lexer/CharacterSet.h) *)

DecimalDigits == {"0", "1", "2", "3", "4", "5", "6", "7", "8", "9"}

UpperLetters == {"A", "B", "C", "D", "E", "F"}

LowerLetters ==
    {"a", "b", "c", "d", "e", "f", "h", "l", "n", "o", "p", "r", "t", "u", "x"}

IsDecimalDigit(c) == c \in DecimalDigits

IsLower(c) == c \in LowerLetters

IsAlnum(c) == c \in DecimalDigits \cup UpperLetters \cup LowerLetters

\* The digit value StringRef::getAsInteger gives a character; 99 for a
\* character that is no digit in any radix.
CharVal(c) ==
    CASE c = "0" -> 0 [] c = "1" -> 1 [] c = "2" -> 2 [] c = "3" -> 3
      [] c = "4" -> 4 [] c = "5" -> 5 [] c = "6" -> 6 [] c = "7" -> 7
      [] c = "8" -> 8 [] c = "9" -> 9
      [] c \in {"A", "a"} -> 10 [] c \in {"B", "b"} -> 11
      [] c \in {"C", "c"} -> 12 [] c \in {"D", "d"} -> 13
      [] c \in {"E", "e"} -> 14 [] c \in {"F", "f"} -> 15
      [] OTHER -> 99

---------------------------------------------------------------------------
(* LexedNumericLiteral::Lex *)

NoLiteral == [some |-> FALSE, text |-> <<>>, radix_point |-> 0, exponent |-> 0]

\* The locals of Lex before the loop.  radix_point and exponent are not yet
\* set; they are written before they are read.
LexStart ==
    [i |-> 1, seen_plus_minus |-> FALSE, seen_radix_point |-> FALSE,
     seen_potential_exponent |-> FALSE, radix_point |-> -1, exponent |-> -1,
     assert_ok |-> TRUE]

\* Mutant: a radix point is consumed whatever follows it.
LexStepAnyDot(src, s) ==
    LET i == s.i
        n == Len(src)
        c == At(src, i)
    IN  IF IsAlnum(c) \/ c = "_"
        THEN IF IsLower(c) /\ s.seen_radix_point /\ ~s.seen_plus_minus
             THEN [stop |-> FALSE,
                   st |-> [s EXCEPT !.exponent = i,
                                    !.seen_potential_exponent = TRUE,
                                    !.i = i + 1]]
             ELSE [stop |-> FALSE, st |-> [s EXCEPT !.i = i + 1]]
        ELSE IF c = "." /\ ~s.seen_radix_point
        THEN [stop |-> FALSE,
              st |-> [s EXCEPT !.radix_point = i, !.seen_radix_point = TRUE,
                               !.i = i + 1]]
        ELSE IF (c = "+" \/ c = "-") /\ s.seen_potential_exponent
                /\ s.exponent = i - 1 /\ i + 1 # n /\ IsAlnum(At(src, i + 1))
        THEN [stop |-> FALSE,
              st |-> [s EXCEPT !.assert_ok = s.assert_ok /\ ~s.seen_plus_minus,
                               !.seen_plus_minus = TRUE,
                               !.i = i + 1]]
        ELSE [stop |-> TRUE, st |-> s]

\* Mutant: a lowercase letter after a consumed sign still moves the marker.
LexStepMarkerAfterSign(src, s) ==
    LET i == s.i
        n == Len(src)
        c == At(src, i)
    IN  IF IsAlnum(c) \/ c = "_"
        THEN IF IsLower(c) /\ s.seen_radix_point
             THEN [stop |-> FALSE,
                   st |-> [s EXCEPT !.exponent = i,
                                    !.seen_potential_exponent = TRUE,
                                    !.i = i + 1]]
             ELSE [stop |-> FALSE, st |-> [s EXCEPT !.i = i + 1]]
        ELSE IF c = "." /\ i + 1 # n /\ IsAlnum(At(src, i + 1))
                /\ ~s.seen_radix_point
        THEN [stop |-> FALSE,
              st |-> [s EXCEPT !.radix_point = i, !.seen_radix_point = TRUE,
                               !.i = i + 1]]
        ELSE IF (c = "+" \/ c = "-") /\ s.seen_potential_exponent
                /\ s.exponent = i - 1 /\ i + 1 # n /\ IsAlnum(At(src, i + 1))
        THEN [stop |-> FALSE,
              st |-> [s EXCEPT !.assert_ok = s.assert_ok /\ ~s.seen_plus_minus,
                               !.seen_plus_minus = TRUE,
                               !.i = i + 1]]
        ELSE [stop |-> TRUE, st |-> s]

\* Mutant: a sign is consumed wherever it stands after the marker.
LexStepSignAnywhere(src, s) ==
    LET i == s.i
        n == Len(src)
        c == At(src, i)
    IN  IF IsAlnum(c) \/ c = "_"
        THEN IF IsLower(c) /\ s.seen_radix_point /\ ~s.seen_plus_minus
             THEN [stop |-> FALSE,
                   st |-> [s EXCEPT !.exponent = i,
                                    !.seen_potential_exponent = TRUE,
                                    !.i = i + 1]]
             ELSE [stop |-> FALSE, st |-> [s EXCEPT !.i = i + 1]]
        ELSE IF c = "." /\ i + 1 # n /\ IsAlnum(At(src, i + 1))
                /\ ~s.seen_radix_point
        THEN [stop |-> FALSE,
              st |-> [s EXCEPT !.radix_point = i, !.seen_radix_point = TRUE,
                               !.i = i + 1]]
        ELSE IF (c = "+" \/ c = "-") /\ s.seen_potential_exponent
                /\ i + 1 # n /\ IsAlnum(At(src, i + 1))
        THEN [stop |-> FALSE,
              st |-> [s EXCEPT !.assert_ok = s.assert_ok /\ ~s.seen_plus_minus,
                               !.seen_plus_minus = TRUE,
                               !.i = i + 1]]
        ELSE [stop |-> TRUE, st |-> s]

\* One pass of the loop of Lex at s.i < n: the locals after the pass, with
\* stop = TRUE when the pass leaves the loop by break.
LexStep(src, s) ==
    LET i == s.i
        n == Len(src)
        c == At(src, i)
    IN  IF IsAlnum(c) \/ c = "_"
        THEN IF IsLower(c) /\ s.seen_radix_point /\ ~s.seen_plus_minus
             THEN [stop |-> FALSE,
                   st |-> [s EXCEPT !.exponent = i,
                                    !.seen_potential_exponent = TRUE,
                                    !.i = i + 1]]
             ELSE [stop |-> FALSE, st |-> [s EXCEPT !.i = i + 1]]
        ELSE IF c = "." /\ i + 1 # n /\ IsAlnum(At(src, i + 1))
                /\ ~s.seen_radix_point
        THEN [stop |-> FALSE,
              st |-> [s EXCEPT !.radix_point = i, !.seen_radix_point = TRUE,
                               !.i = i + 1]]
        ELSE IF (c = "+" \/ c = "-") /\ s.seen_potential_exponent
                /\ s.exponent = i - 1 /\ i + 1 # n /\ IsAlnum(At(src, i + 1))
        THEN [stop |-> FALSE,
              st |-> [s EXCEPT !.assert_ok = s.assert_ok /\ ~s.seen_plus_minus,
                               !.seen_plus_minus = TRUE,
                               !.i = i + 1]]
        ELSE [stop |-> TRUE, st |-> s]

RECURSIVE LexLoop(_, _)
LexLoop(src, s) ==
    IF s.i = Len(src) THEN s
    ELSE LET r == LexStep(src, s)
         IN  IF r.stop THEN r.st ELSE LexLoop(src, r.st)

\* The locals of Lex when its loop has ended.
LexScan(src) == LexLoop(src, LexStart)

NumericLex(src) ==
    IF src = <<>> \/ ~IsDecimalDigit(At(src, 0))
    THEN NoLiteral
    ELSE LET s == LexScan(src)
         IN  [some |-> TRUE,
              text |-> Substr(src, 0, s.i),
              radix_point |-> IF ~s.seen_radix_point THEN s.i ELSE s.radix_point,
              exponent |-> IF ~s.seen_potential_exponent THEN s.i ELSE s.exponent]

---------------------------------------------------------------------------
(* LexedNumericLiteral::Parser *)

\* The Parser constructor: the radix and the three parts of the literal.
\* Each part is kept with the offset in literal.text where it begins
\* (StringRef::begin()).
Parser(lit) ==
    LET whole    == Substr(lit.text, 0, lit.radix_point)
        radix    == IF StartsWith(whole, <<"0", "x">>) THEN 16
                    ELSE IF StartsWith(whole, <<"0", "b">>) THEN 2
                    ELSE 10
        int_base == IF radix = 10 THEN 0 ELSE 2
        exp_all  == SubstrFrom(lit.text, lit.exponent + 1)
        plus     == StartsWith(exp_all, <<"+">>)
        minus    == ~plus /\ StartsWith(exp_all, <<"-">>)
        signed   == plus \/ minus
    IN  [literal |-> lit,
         radix |-> radix,
         int_part |-> DropFront(whole, int_base),
         int_base |-> int_base,
         fract_part |-> Substr(lit.text, lit.radix_point + 1,
                               lit.exponent - lit.radix_point - 1),
         fract_base |-> Min(lit.radix_point + 1, Len(lit.text)),
         exponent_part |-> IF signed THEN DropFront(exp_all, 1) ELSE exp_all,
         exp_base |-> Min(lit.exponent + 1, Len(lit.text))
                         + (IF signed THEN 1 ELSE 0),
         exponent_is_negative |-> minus]

IsInteger(p) == p.literal.radix_point = Len(p.literal.text)

GetRadix(p) == p.radix

Diag(kind, loc, radix) == [kind |-> kind, loc |-> loc, radix |-> radix]

\* valid_digits of CheckDigitSequence.
ValidDigits(radix) ==
    IF radix = 2 THEN {"0", "1"}
    ELSE IF radix = 10 THEN DecimalDigits
    ELSE DecimalDigits \cup UpperLetters

CountSeparators(text) == Cardinality({i \in 1..Len(text) : text[i] = "_"})

\* Mutant: the stride counts the digits of a group and not its separator.
SeparatorStrideDigitsOnly(radix) == IF radix = 10 THEN 3 ELSE 4

\* The stride in characters, separator included.
SeparatorStride(radix) == IF radix = 10 THEN 4 ELSE 5

\* Mutant: a separator found at a stride is not counted off.
RECURSIVE PlacementWalkNoCount(_, _, _, _)
PlacementWalkNoCount(text, stride, pos, remaining) ==
    IF pos >= stride
    THEN IF At(text, pos - stride) # "_"
         THEN -1
         ELSE PlacementWalkNoCount(text, stride, pos - stride, remaining)
    ELSE remaining

\* The loop of CheckDigitSeparatorPlacement from offset pos, walking to the
\* left: "irregular" when a stride lands on a character that is no
\* separator, else the separators that no stride accounted for.
RECURSIVE PlacementWalk(_, _, _, _)
PlacementWalk(text, stride, pos, remaining) ==
    IF pos >= stride
    THEN IF At(text, pos - stride) # "_"
         THEN -1
         ELSE PlacementWalk(text, stride, pos - stride, remaining - 1)
    ELSE remaining

\* Mutant: every radix but 10 returns early, as radix 2 does.
CheckDigitSeparatorPlacementDecimalOnly(text, radix, num_digit_separators, base) ==
    IF radix # 10 THEN <<>>
    ELSE IF PlacementWalk(text, SeparatorStride(radix), Len(text),
                          num_digit_separators) # 0
    THEN <<Diag("IrregularDigitSeparators", base, radix)>>
    ELSE <<>>

\* CheckDigitSeparatorPlacement: the diagnostics it emits; base is the offset
\* of text.begin().
CheckDigitSeparatorPlacement(text, radix, num_digit_separators, base) ==
    IF radix = 2 THEN <<>>
    ELSE IF PlacementWalk(text, SeparatorStride(radix), Len(text),
                          num_digit_separators) # 0
    THEN <<Diag("IrregularDigitSeparators", base, radix)>>
    ELSE <<>>

\* Mutant: a separator at the end of the sequence is accepted.
RECURSIVE DigitLoopTrailingAllowed(_, _, _, _, _, _)
DigitLoopTrailingAllowed(text, radix, allow_digit_separators, base, i, acc) ==
    IF i = Len(text) THEN acc
    ELSE LET c == At(text, i)
         IN  IF c \in ValidDigits(radix)
             THEN DigitLoopTrailingAllowed(text, radix, allow_digit_separators, base, i + 1, acc)
             ELSE IF c = "_"
             THEN LET bad == ~allow_digit_separators \/ i = 0
                             \/ At(text, i - 1) = "_"
                  IN  DigitLoopTrailingAllowed(text, radix, allow_digit_separators, base, i + 1,
                          [acc EXCEPT
                             !.diags = IF bad
                                 THEN Append(@, Diag("InvalidDigitSeparator",
                                                     base + i, 0))
                                 ELSE @,
                             !.num_digit_separators = @ + 1])
             ELSE [acc EXCEPT
                     !.diags = Append(@, Diag("InvalidDigit", base + i, radix)),
                     !.invalid = TRUE]

\* The scanning loop of CheckDigitSequence from offset i: the diagnostics it
\* emits, whether it returned early for an invalid digit, and the separators
\* counted.
RECURSIVE DigitLoop(_, _, _, _, _, _)
DigitLoop(text, radix, allow_digit_separators, base, i, acc) ==
    IF i = Len(text) THEN acc
    ELSE LET c == At(text, i)
         IN  IF c \in ValidDigits(radix)
             THEN DigitLoop(text, radix, allow_digit_separators, base, i + 1, acc)
             ELSE IF c = "_"
             THEN LET bad == ~allow_digit_separators \/ i = 0
                             \/ At(text, i - 1) = "_" \/ i + 1 = Len(text)
                  IN  DigitLoop(text, radix, allow_digit_separators, base, i + 1,
                          [acc EXCEPT
                             !.diags = IF bad
                                 THEN Append(@, Diag("InvalidDigitSeparator",
                                                     base + i, 0))
                                 ELSE @,
                             !.num_digit_separators = @ + 1])
             ELSE [acc EXCEPT
                     !.diags = Append(@, Diag("InvalidDigit", base + i, radix)),
                     !.invalid = TRUE]

\* Mutant: an irregular placement makes the digit sequence fail.
CheckDigitSequenceIrregularFatal(text, radix, allow_digit_separators, base) ==
    LET r == DigitLoop(text, radix, allow_digit_separators, base, 0,
                       [diags |-> <<>>, invalid |-> FALSE,
                        num_digit_separators |-> 0])
        placement == IF r.num_digit_separators # 0
                     THEN CheckDigitSeparatorPlacement(text, radix,
                              r.num_digit_separators, base)
                     ELSE <<>>
    IN  IF r.invalid
        THEN [ok |-> FALSE, has_digit_separators |-> FALSE, diags |-> r.diags]
        ELSE IF r.num_digit_separators = Len(text)
        THEN [ok |-> FALSE, has_digit_separators |-> FALSE,
              diags |-> Append(r.diags, Diag("EmptyDigitSequence", base, 0))]
        ELSE [ok |-> placement = <<>>,
              has_digit_separators |-> r.num_digit_separators # 0,
              diags |-> r.diags \o placement]

\* CheckDigitSequence: its result {ok, has_digit_separators} and the
\* diagnostics it emits.
CheckDigitSequence(text, radix, allow_digit_separators, base) ==
    LET r == DigitLoop(text, radix, allow_digit_separators, base, 0,
                       [diags |-> <<>>, invalid |-> FALSE,
                        num_digit_separators |-> 0])
    IN  IF r.invalid
        THEN [ok |-> FALSE, has_digit_separators |-> FALSE, diags |-> r.diags]
        ELSE IF r.num_digit_separators = Len(text)
        THEN [ok |-> FALSE, has_digit_separators |-> FALSE,
              diags |-> Append(r.diags, Diag("EmptyDigitSequence", base, 0))]
        ELSE [ok |-> TRUE,
              has_digit_separators |-> r.num_digit_separators # 0,
              diags |-> r.diags \o
                  (IF r.num_digit_separators # 0
                   THEN CheckDigitSeparatorPlacement(text, radix,
                            r.num_digit_separators, base)
                   ELSE <<>>)]

\* Each Check* below gives the value it returns (ok), the diagnostics it
\* emits, and the cleaning flag it sets.

\* Mutant: the base specifier is diagnosed and validation goes on.
CheckLeadingZeroNotFatal(p) ==
    IF p.radix = 10 /\ StartsWith(p.int_part, <<"0">>) /\ p.int_part # <<"0">>
    THEN [ok |-> TRUE, diags |-> <<Diag("UnknownBaseSpecifier", p.int_base, 0)>>]
    ELSE [ok |-> TRUE, diags |-> <<>>]

CheckLeadingZero(p) ==
    IF p.radix = 10 /\ StartsWith(p.int_part, <<"0">>) /\ p.int_part # <<"0">>
    THEN [ok |-> FALSE, diags |-> <<Diag("UnknownBaseSpecifier", p.int_base, 0)>>]
    ELSE [ok |-> TRUE, diags |-> <<>>]

CheckIntPart(p) ==
    LET int_result == CheckDigitSequence(p.int_part, p.radix, TRUE, p.int_base)
    IN  [ok |-> int_result.ok, diags |-> int_result.diags,
         needs_cleaning |-> int_result.has_digit_separators]

CheckFractionalPart(p) ==
    IF IsInteger(p)
    THEN [ok |-> TRUE, diags |-> <<>>, needs_cleaning |-> FALSE]
    ELSE LET r == CheckDigitSequence(p.fract_part, p.radix, FALSE, p.fract_base)
         IN  [ok |-> r.ok,
              diags |-> (IF p.radix = 2
                         THEN <<Diag("BinaryRealLiteral",
                                     p.literal.radix_point, 0)>>
                         ELSE <<>>) \o r.diags,
              needs_cleaning |-> TRUE]

ExpectedExponentKind(radix) == IF radix = 10 THEN "e" ELSE "p"

CheckExponentPart(p) ==
    IF p.literal.exponent = Len(p.literal.text)
    THEN [ok |-> TRUE, diags |-> <<>>, needs_cleaning |-> FALSE]
    ELSE IF At(p.literal.text, p.literal.exponent) # ExpectedExponentKind(p.radix)
    THEN [ok |-> FALSE,
          diags |-> <<Diag("WrongRealLiteralExponent", p.literal.exponent, 0)>>,
          needs_cleaning |-> FALSE]
    ELSE LET r == CheckDigitSequence(p.exponent_part, 10, TRUE, p.exp_base)
         IN  [ok |-> r.ok, diags |-> r.diags,
              needs_cleaning |-> r.has_digit_separators]

\* Parser::Check: the checks run left to right and stop at the first that
\* fails.  The result carries the flags mantissa_needs_cleaning and
\* exponent_needs_cleaning the checks have set.
Check(p) ==
    LET lz == CheckLeadingZero(p)
        ip == CheckIntPart(p)
        fp == CheckFractionalPart(p)
        ep == CheckExponentPart(p)
    IN  IF ~lz.ok
        THEN [ok |-> FALSE, diags |-> lz.diags,
              mantissa_needs_cleaning |-> FALSE,
              exponent_needs_cleaning |-> FALSE]
        ELSE IF ~ip.ok
        THEN [ok |-> FALSE, diags |-> lz.diags \o ip.diags,
              mantissa_needs_cleaning |-> ip.needs_cleaning,
              exponent_needs_cleaning |-> FALSE]
        ELSE IF ~fp.ok
        THEN [ok |-> FALSE, diags |-> lz.diags \o ip.diags \o fp.diags,
              mantissa_needs_cleaning |-> ip.needs_cleaning \/ fp.needs_cleaning,
              exponent_needs_cleaning |-> FALSE]
        ELSE [ok |-> ep.ok,
              diags |-> lz.diags \o ip.diags \o fp.diags \o ep.diags,
              mantissa_needs_cleaning |-> ip.needs_cleaning \/ fp.needs_cleaning,
              exponent_needs_cleaning |-> ep.needs_cleaning]

---------------------------------------------------------------------------
(* Value computation *)

\* std::remove_copy_if of ParseInteger: the text without '_' and '.'.
RECURSIVE Cleaned(_)
Cleaned(digits) ==
    IF digits = <<>> THEN <<>>
    ELSE IF Head(digits) \in {"_", "."} THEN Cleaned(Tail(digits))
    ELSE <<Head(digits)>> \o Cleaned(Tail(digits))

\* Mutant: the digits are read in radix 10 whatever the radix.
RECURSIVE AccumulateDecimal(_, _, _)
AccumulateDecimal(digits, radix, acc) ==
    IF digits = <<>> THEN acc
    ELSE AccumulateDecimal(Tail(digits), radix, acc * 10 + CharVal(Head(digits)))

\* StringRef::getAsInteger(radix, APInt&): the digits are accumulated from
\* the left; a character that is no digit of the radix makes it fail.
RECURSIVE Accumulate(_, _, _)
Accumulate(digits, radix, acc) ==
    IF digits = <<>> THEN acc
    ELSE Accumulate(Tail(digits), radix, acc * radix + CharVal(Head(digits)))

GetAsIntegerFails(digits, radix) ==
    \E i \in 1..Len(digits) : CharVal(digits[i]) >= radix

\* ParseInteger: failed = TRUE is the llvm_unreachable("should never fail").
ParseInteger(digits, radix, needs_cleaning) ==
    LET d == IF needs_cleaning THEN Cleaned(digits) ELSE digits
    IN  IF GetAsIntegerFails(d, radix)
        THEN [failed |-> TRUE, value |-> 0]
        ELSE [failed |-> FALSE, value |-> Accumulate(d, radix, 0)]

GetMantissa(p, mantissa_needs_cleaning) ==
    LET end == IF IsInteger(p) THEN p.int_base + Len(p.int_part)
               ELSE p.fract_base + Len(p.fract_part)
    IN  ParseInteger(Substr(p.literal.text, p.int_base, end - p.int_base),
                     p.radix, mantissa_needs_cleaning)

\* The fractional digit compensation of GetExponent.
ExcessExponent(p) ==
    IF p.radix = 16 THEN Len(p.fract_part) * 4 ELSE Len(p.fract_part)

\* GetExponent.  The APInt is widened to at least 64 bits before it is
\* negated and before the compensation is subtracted, so within the bounds
\* of this model the arithmetic is that of the integers.  sign_fixed tells
\* that the final branch (exponent_is_negative with a result that is not
\* negative) was taken, which sets the sign bit of the widened value.
GetExponent(p, exponent_needs_cleaning) ==
    LET parsed  == IF p.exponent_part # <<>>
                   THEN ParseInteger(p.exponent_part, 10, exponent_needs_cleaning)
                   ELSE [failed |-> FALSE, value |-> 0]
        signed  == IF p.exponent_is_negative THEN 0 - parsed.value
                   ELSE parsed.value
        reduced == signed - ExcessExponent(p)
    IN  [failed |-> parsed.failed,
         value |-> reduced,
         sign_fixed |-> p.exponent_is_negative /\ reduced >= 0]

NoValue == [kind |-> "None", radix |-> 0, mantissa |-> 0, exponent |-> 0]

UnrecoverableError ==
    [kind |-> "Unrecoverable", radix |-> 0, mantissa |-> 0, exponent |-> 0]

IntegerValue(v) ==
    [kind |-> "Integer", radix |-> 0, mantissa |-> v, exponent |-> 0]

RealValue(r, m, e) ==
    [kind |-> "Real", radix |-> r, mantissa |-> m, exponent |-> e]

\* A Real whose exponent had its sign bit forced by the last branch of
\* GetExponent: the exponent returned is the field's value minus 2^w, w >= 64
\* being the width of the APInt, which is outside the integers of this model.
SignFixedRealValue(r, m, e) ==
    [kind |-> "RealSignBitSet", radix |-> r, mantissa |-> m, exponent |-> e]

\* What a build may do once llvm_unreachable is executed: the program stops,
\* or execution continues and some value is returned.
Crashed == [kind |-> "Crashed", radix |-> 0, mantissa |-> 0, exponent |-> 0]

UndefinedOutcomes == {Crashed, UnrecoverableError, IntegerValue(0)}

\* LexedNumericLiteral::ComputeValue: the values it may return and the
\* diagnostics it emits.
ComputeValue(lit) ==
    LET p  == Parser(lit)
        ck == Check(p)
        m  == GetMantissa(p, ck.mantissa_needs_cleaning)
        e  == GetExponent(p, ck.exponent_needs_cleaning)
    IN  [diags |-> ck.diags,
         values |->
            IF ~ck.ok THEN {UnrecoverableError}
            ELSE IF IsInteger(p)
            THEN IF m.failed THEN UndefinedOutcomes
                 ELSE {IntegerValue(m.value)}
            ELSE IF m.failed \/ e.failed THEN UndefinedOutcomes
            ELSE IF e.sign_fixed
            THEN {SignFixedRealValue(IF GetRadix(p) = 10 THEN 10 ELSE 2,
                                     m.value, e.value)}
            ELSE {RealValue(IF GetRadix(p) = 10 THEN 10 ELSE 2,
                            m.value, e.value)}]

---------------------------------------------------------------------------
(* Inputs of the numeric analyzer *)

\* Longest input of the unstructured family.
MaxNumLen == 4

\* Longest digit sequence of the separator families.
MaxSepLen == 9

\* Longest fractional part of the real family.
MaxFractLen == 2

NumAlphabet == {"0", "1", "8", "F", "x", "b", "e", "p", "_", ".", "+", "-"}

\* Any text that starts with a digit, and the short texts that need not.
NumArbitraryInputs ==
    {<<d>> \o t : d \in {"0", "1", "8"}, t \in Texts(NumAlphabet, 0, MaxNumLen - 1)}
        \cup Texts(NumAlphabet, 0, 2)

\* Integer literals made of one digit and separators: decimal ones, and
\* hexadecimal and binary ones.
NumSeparatorInputs ==
    Texts({"1", "_"}, 1, MaxSepLen)
        \cup {pre \o t : pre \in {<<"0", "x">>, <<"0", "b">>},
                         t \in Texts({"0", "_"}, 1, MaxSepLen)}

RealIntParts ==
    {<<"1">>, <<"0">>, <<"0", "x", "1">>, <<"0", "x", "F", "_", "1">>,
     <<"0", "b", "1">>, <<"1", "_", "0">>, <<"1", "_", "0", "0", "0">>}

RealExponentTails ==
    {<<>>} \cup
    {<<m>> \o sign \o body :
        m \in {"e", "p"},
        sign \in {<<>>, <<"+">>, <<"-">>},
        body \in {<<"2">>, <<"1", "_", "0">>, <<"1", "_", "0", "0", "0">>}}

\* Real literals: an integer part, a fractional part and an optional exponent.
NumRealInputs ==
    {ip \o <<".">> \o fp \o tail :
        ip \in RealIntParts,
        fp \in Texts({"1", "8", "_"}, 1, MaxFractLen),
        tail \in RealExponentTails}

\* The literals of the concrete scenarios.
NumScenarioInputs ==
    {<<"1", "2", "3", "_", "4", "5", "6">>,
     <<"0", "x", "F", "F", "_", "F", "F", "_", "F", "F">>,
     <<"0", "b", "1", "0", "0", "1">>,
     <<"1", "_", "0", "0", "0">>,
     <<"1", ".", "5", "e", "2">>,
     <<"0", "x", "1", ".", "8", "p", "4">>,
     <<"0", "x", "1", "_", "F", "F", "F", "F">>,
     <<"0", "x", "0", "0", "0", "F", "_", "F", "F", "F", "F">>,
     <<"1", "e", "5">>,
     <<"1", ".", "1", "_", "5">>,
     <<"1", ".", "5", "e", "_", "2">>,
     <<"1", ".", "5", "e", "2", "_">>,
     <<"1", ".", "5", "e", "-", "1", "_", "_", "0">>,
     <<"1", ".", "e", "e">>,
     <<"1", ".", "e", "+", "e">>,
     <<"1", ".", "5", "e", "+", "1", "e", "2">>,
     <<"1", ".", "5", "e", "-", "2", "+", "1">>}

NumInputs ==
    NumArbitraryInputs \cup NumSeparatorInputs \cup NumRealInputs
        \cup NumScenarioInputs

---------------------------------------------------------------------------
(* The numeric analyzer as a state machine: Lex, then ComputeValue *)

NoStringLiteral ==
    [some |-> FALSE, text |-> <<>>, content |-> <<>>, content_begin |-> 0,
     hash_level |-> 0, multi_line |-> FALSE, is_terminated |-> FALSE]

NumInit ==
    /\ source_text \in NumInputs
    /\ pc = "NumLex"
    /\ literal = NoLiteral
    /\ value = NoValue
    /\ str_literal = NoStringLiteral
    /\ str_value = <<>>
    /\ diags = <<>>
    /\ node_impls = <<>>
    /\ has_errors = FALSE
    /\ tree_out = NoTreeOutput
    /\ expansion = NoExpansion

\* LexedNumericLiteral::Lex(source_text)
NumLex ==
    /\ pc = "NumLex"
    /\ literal' = NumericLex(source_text)
    /\ pc' = IF literal'.some THEN "NumComputeValue" ELSE "NumNone"
    /\ UNCHANGED <<source_text, value, str_literal, str_value, diags, tree_vars, expansion>>

\* literal.ComputeValue(emitter)
NumComputeValue ==
    /\ pc = "NumComputeValue"
    /\ \E r \in {ComputeValue(literal)} :
           /\ value' \in r.values
           /\ diags' = diags \o r.diags
    /\ pc' = "NumDone"
    /\ UNCHANGED <<source_text, literal, str_literal, str_value, tree_vars, expansion>>

NumNext == NumLex \/ NumComputeValue

NumSpec == NumInit /\ [][NumNext]_vars

NumTypeOK ==
    /\ pc \in {"NumLex", "NumComputeValue", "NumNone", "NumDone"}
    /\ value.kind \in {"None", "Integer", "Real", "Unrecoverable"}

---------------------------------------------------------------------------
(* What a numeric lexeme denotes, read off its text *)

\* The radix the prefix of the text announces.
WrittenRadix(text) ==
    IF StartsWith(text, <<"0", "x">>) THEN 16
    ELSE IF StartsWith(text, <<"0", "b">>) THEN 2
    ELSE 10

WithoutSeparators(text) == SelectSeq(text, LAMBDA c : c # "_")

\* The number a sequence of digits denotes in a radix.
RECURSIVE DigitsValue(_, _)
DigitsValue(d, radix) ==
    IF d = <<>> THEN 0
    ELSE CharVal(d[Len(d)]) + radix * DigitsValue(SubSeq(d, 1, Len(d) - 1), radix)

\* The characters of the integer part, after the prefix.
WrittenIntPart(lit) ==
    SubSeq(lit.text, (IF WrittenRadix(lit.text) = 10 THEN 0 ELSE 2) + 1,
           lit.radix_point)

\* The characters between the radix point and the exponent marker.
WrittenFractPart(lit) == SubSeq(lit.text, lit.radix_point + 2, lit.exponent)

\* The signed number written after the exponent marker, 0 without a marker.
WrittenExponent(lit) ==
    LET after  == SubSeq(lit.text, lit.exponent + 2, Len(lit.text))
        signed == after # <<>> /\ after[1] \in {"+", "-"}
        body   == IF signed THEN Tail(after) ELSE after
        n      == DigitsValue(WithoutSeparators(body), 10)
    IN  IF signed /\ after[1] = "-" THEN 0 - n ELSE n

HasRadixPoint(lit) == lit.radix_point < Len(lit.text)

DiagKinds == {diags[i].kind : i \in 1..Len(diags)}

CountDiags(kind) == Cardinality({i \in 1..Len(diags) : diags[i].kind = kind})

NumDone == pc = "NumDone"

\* The separators of a digit sequence stand exactly every `group` digits
\* counted from the right: the k-th character from the right is a separator
\* exactly when k is a multiple of group + 1.
UniformSeparators(text, group) ==
    \A k \in 1..Len(text) :
        (text[Len(text) + 1 - k] = "_") <=> (k % (group + 1) = 0)

DigitsPerGroup(radix) == IF radix = 10 THEN 3 ELSE 4

---------------------------------------------------------------------------
(* Claims about the numeric analyzer *)

\* C1: a lexeme without a radix point that passes validation yields an
\* Integer whose value is the integer part after the 0x / 0b prefix, with
\* every '_' removed, read in the radix the prefix announces.
C1_IntegerValue ==
    (NumDone /\ ~HasRadixPoint(literal) /\ value.kind # "Unrecoverable")
        => value = IntegerValue(DigitsValue(
                       WithoutSeparators(WrittenIntPart(literal)),
                       WrittenRadix(literal.text)))

C1_Witness ==
    /\ NumDone
    /\ source_text = <<"0", "x", "0", "0", "0", "F", "_", "F", "F", "F", "F">>
    /\ value = IntegerValue(1048575)
    /\ "InvalidDigit" \notin DiagKinds

\* C2: whenever ComputeValue returns Real(radix, mantissa, exponent) the
\* literal's value is mantissa * radix^exponent: the radix is 10 for a
\* decimal and 2 for a hexadecimal literal, the mantissa is the integer and
\* fractional digits read in the written radix, and the exponent is the
\* written exponent minus the number of fractional digits (decimal) or minus
\* four times that number (hexadecimal).
C2_RealValue ==
    (NumDone /\ HasRadixPoint(literal) /\ value.kind = "Real")
        => LET r == WrittenRadix(literal.text)
               f == Len(WithoutSeparators(WrittenFractPart(literal)))
           IN  /\ value.radix = (IF r = 10 THEN 10 ELSE 2)
               /\ value.mantissa =
                     DigitsValue(WithoutSeparators(WrittenIntPart(literal)
                                     \o WrittenFractPart(literal)), r)
               /\ value.exponent =
                     WrittenExponent(literal) - (IF r = 16 THEN 4 * f ELSE f)

\* C3: a lexeme with a 0b prefix and a radix point never yields a Real:
\* ComputeValue returns Unrecoverable.
C3_BinaryRealFails ==
    (NumDone /\ WrittenRadix(literal.text) = 2 /\ HasRadixPoint(literal))
        => value.kind = "Unrecoverable"

\* C4: a decimal integer part or exponent body whose separators stand every
\* 3 digits from the right, and a hexadecimal integer part whose separators
\* stand every 4 digits from the right, gets no IrregularDigitSeparators
\* diagnostic; in particular 123_456 is Integer 123456 with no diagnostic.
C4_UniformStrideAccepted ==
    NumDone =>
        LET p == Parser(literal)
        IN  /\ (p.radix \in {10, 16}
                  /\ UniformSeparators(p.int_part, DigitsPerGroup(p.radix)))
                => Diag("IrregularDigitSeparators", p.int_base, p.radix)
                       \notin {diags[i] : i \in 1..Len(diags)}
            /\ UniformSeparators(p.exponent_part, DigitsPerGroup(10))
                => Diag("IrregularDigitSeparators", p.exp_base, 10)
                       \notin {diags[i] : i \in 1..Len(diags)}
            /\ source_text = <<"1", "2", "3", "_", "4", "5", "6">>
                => (value = IntegerValue(123456) /\ diags = <<>>)

C4_Witness ==
    /\ NumDone
    /\ WrittenRadix(literal.text) = 10
    /\ CountSeparators(WrittenIntPart(literal)) = 2
    /\ UniformSeparators(WrittenIntPart(literal), 3)
    /\ value.kind = "Integer"
    /\ diags = <<>>


C2_Witness ==
    /\ NumDone
    /\ source_text = <<"0", "x", "1", ".", "8", "p", "4">>
    /\ value = RealValue(2, 24, 0)

\* C5 as stated: 1_000 yields Integer 1000 and exactly one
\* IrregularDigitSeparators diagnostic.
C5_OneIrregularFor1_000 ==
    (NumDone /\ source_text = <<"1", "_", "0", "0", "0">>)
        => /\ value = IntegerValue(1000)
           /\ CountDiags("IrregularDigitSeparators") = 1

\* C5, amended: 1_000 yields Integer 1000 and no diagnostic at all; its one
\* separator stands 3 digits from the right.
C5_NoDiagnosticFor1_000 ==
    (NumDone /\ source_text = <<"1", "_", "0", "0", "0">>)
        => /\ value = IntegerValue(1000)
           /\ diags = <<>>

C5_Witness ==
    /\ NumDone
    /\ source_text = <<"1", "_", "0", "0", "0">>
    /\ UniformSeparators(Parser(literal).int_part, 3)

\* C6 as stated: 0xFF_FF_FF yields Integer 16777215 and no diagnostic.
C6_NoDiagnosticForHexPairs ==
    (NumDone
       /\ source_text = <<"0", "x", "F", "F", "_", "F", "F", "_", "F", "F">>)
        => /\ value = IntegerValue(16777215)
           /\ diags = <<>>

\* A digit sequence of the radix whose separators all stand between two
\* digits.
WellSeparated(text, radix) ==
    /\ text # <<>>
    /\ \A i \in 1..Len(text) :
          \/ text[i] \in ValidDigits(radix)
          \/ /\ text[i] = "_"
             /\ 1 < i /\ i < Len(text)
             /\ text[i - 1] # "_"

\* C6, amended: 0xFF_FF_FF yields Integer 16777215 and exactly one
\* diagnostic, IrregularDigitSeparators for radix 16 at the first digit.  In
\* general a hexadecimal integer whose separators stand between digits but
\* not every 4 digits from the right yields its value and that one
\* diagnostic.
C6_HexIrregularReported ==
    (NumDone /\ WrittenRadix(literal.text) = 16 /\ ~HasRadixPoint(literal)
       /\ WellSeparated(WrittenIntPart(literal), 16)
       /\ ~UniformSeparators(WrittenIntPart(literal), 4)
       /\ CountSeparators(WrittenIntPart(literal)) > 0)
        => /\ value = IntegerValue(DigitsValue(
                          WithoutSeparators(WrittenIntPart(literal)), 16))
           /\ diags = <<Diag("IrregularDigitSeparators", 2, 16)>>
           /\ source_text = <<"0", "x", "F", "F", "_", "F", "F", "_", "F", "F">>
                => value = IntegerValue(16777215)

C6_Witness ==
    /\ NumDone
    /\ source_text = <<"0", "x", "F", "F", "_", "F", "F", "_", "F", "F">>
    /\ CountDiags("IrregularDigitSeparators") = 1

FatalKinds ==
    {"InvalidDigit", "UnknownBaseSpecifier", "WrongRealLiteralExponent",
     "EmptyDigitSequence"}

\* C7: ComputeValue returns Unrecoverable exactly when it has emitted an
\* invalid-digit, unknown-base-specifier, wrong-exponent-marker or
\* empty-digit-sequence diagnostic.  The base specifier diagnostic is given
\* to a decimal integer part that starts with 0 and is not "0"; the marker
\* diagnostic to a marker that is not 'e' (radix 10) or 'p' (otherwise).
C7_FatalIffUnrecoverable ==
    NumDone =>
        /\ (DiagKinds \cap FatalKinds # {}) <=> (value.kind = "Unrecoverable")
        /\ ("UnknownBaseSpecifier" \in DiagKinds)
              <=> /\ WrittenRadix(literal.text) = 10
                  /\ StartsWith(WrittenIntPart(literal), <<"0">>)
                  /\ WrittenIntPart(literal) # <<"0">>
        /\ ("WrongRealLiteralExponent" \in DiagKinds)
              => /\ literal.exponent < Len(literal.text)
                 /\ At(literal.text, literal.exponent) #
                       (IF WrittenRadix(literal.text) = 10 THEN "e" ELSE "p")

C7_Witness ==
    /\ NumDone
    /\ value.kind = "Unrecoverable"
    /\ DiagKinds = {"IrregularDigitSeparators", "WrongRealLiteralExponent"}

\* The values ComputeValue gives the lexeme that Lex finds in a text.
ValuesOf(text) == ComputeValue(NumericLex(text)).values

\* C8: IrregularDigitSeparators is never fatal: a lexeme whose only
\* diagnostics are of that kind yields the Integer or Real it yields with
\* its separators removed.  A digit sequence checked in radix 2 never gets
\* the diagnostic: none carries radix 2, and none is reported at the integer
\* or fractional part of a 0b literal.  (The exponent body of a 0b literal
\* is a decimal sequence and is checked as one.)
C8_IrregularNotFatal ==
    NumDone =>
        /\ (DiagKinds = {"IrregularDigitSeparators"})
              => /\ value.kind \in {"Integer", "Real"}
                 /\ ValuesOf(WithoutSeparators(literal.text)) = {value}
        /\ \A i \in 1..Len(diags) :
              diags[i].kind = "IrregularDigitSeparators"
                  => /\ diags[i].radix \in {10, 16}
                     /\ WrittenRadix(literal.text) = 2
                           => diags[i].loc > literal.exponent

C8_Witness ==
    /\ NumDone
    /\ DiagKinds = {"IrregularDigitSeparators"}
    /\ value.kind = "Real"
    /\ value.mantissa > 0
    /\ CountSeparators(literal.text) = 2

\* A binary integer with separators anywhere between its digits has no
\* diagnostic.
C8_WitnessBinary ==
    /\ NumDone
    /\ WrittenRadix(literal.text) = 2
    /\ CountSeparators(literal.text) = 3
    /\ ~UniformSeparators(WrittenIntPart(literal), 4)
    /\ value.kind = "Integer"
    /\ diags = <<>>


---------------------------------------------------------------------------
(* LexedStringLiteral::Lex *)

NL == "\n"

TAB == "\t"

BS == "\\"

DQ == "\""

MultiLineIndicator == <<DQ, DQ, DQ>>

\* n copies of the character c.
Repeat(c, n) == [i \in 1..n |-> c]

\* StringRef::find_first_of / find_if: the offset of the first character of
\* s at or after offset from that is in chars, Len(s) when there is none
\* (StringRef::npos).
RECURSIVE FindFirstOf(_, _, _)
FindFirstOf(s, from, chars) ==
    IF from >= Len(s) THEN Len(s)
    ELSE IF At(s, from) \in chars THEN from
    ELSE FindFirstOf(s, from + 1, chars)

\* StringRef::find_if_not: the same for the first character not in chars.
RECURSIVE FindFirstNotOf(_, _, _)
FindFirstNotOf(s, from, chars) ==
    IF from >= Len(s) THEN Len(s)
    ELSE IF At(s, from) \notin chars THEN from
    ELSE FindFirstNotOf(s, from + 1, chars)

HorizontalWhitespace == {" ", TAB}

IsHorizontalWhitespace(c) == c \in HorizontalWhitespace

IsSpace(c) == IsHorizontalWhitespace(c) \/ c = NL

IsUpperHexDigit(c) == c \in DecimalDigits \cup UpperLetters

GetMultiLineStringLiteralPrefixSize(source) ==
    IF ~StartsWith(source, MultiLineIndicator) THEN 0
    ELSE LET prefix_end ==
                 FindFirstOf(source, Len(MultiLineIndicator), {"#", NL, DQ})
         IN  IF prefix_end = Len(source) \/ At(source, prefix_end) # NL
             THEN 0
             ELSE prefix_end + 1

LexedStringLiteral(text, content, content_begin, hash_level, multi_line, is_terminated) ==
    [some |-> TRUE, text |-> text, content |-> content,
     content_begin |-> content_begin, hash_level |-> hash_level,
     multi_line |-> multi_line, is_terminated |-> is_terminated]

\* Mutant: a newline right after an escape introducer is skipped like any
\* other escaped character.
RECURSIVE StringLexLoopEscapedNewline(_, _, _, _, _)
StringLexLoopEscapedNewline(source, cursor, prefix_len, hash_level, multi_line) ==
    LET size       == Len(source)
        terminator == (IF multi_line THEN MultiLineIndicator ELSE <<DQ>>)
                          \o Repeat("#", hash_level)
        escape     == <<BS>> \o Repeat("#", hash_level)
        unterminated(upto) ==
            LexedStringLiteral(Substr(source, 0, upto),
                               DropFront(Substr(source, 0, upto), prefix_len),
                               prefix_len, hash_level, multi_line, FALSE)
    IN  IF cursor >= size THEN unterminated(size)
        ELSE LET c == At(source, cursor)
             IN  IF c = BS
                       /\ (Len(escape) = 1
                             \/ StartsWith(SubstrFrom(source, cursor), escape))
                 THEN LET after == cursor + Len(escape)
                      IN  IF after >= size
                          THEN unterminated(after)
                          ELSE StringLexLoopEscapedNewline(source, after + 1, prefix_len,
                                             hash_level, multi_line)
                 ELSE IF c = NL /\ ~multi_line
                 THEN unterminated(cursor)
                 ELSE IF c = DQ
                       /\ (Len(terminator) = 1
                             \/ StartsWith(SubstrFrom(source, cursor), terminator))
                 THEN LexedStringLiteral(
                          Substr(source, 0, cursor + Len(terminator)),
                          Substr(source, prefix_len, cursor - prefix_len),
                          prefix_len, hash_level, multi_line, TRUE)
                 ELSE StringLexLoopEscapedNewline(source, cursor + 1, prefix_len,
                                    hash_level, multi_line)

\* Mutant: the character after an escape introducer is not skipped.
RECURSIVE StringLexLoopNoSkip(_, _, _, _, _)
StringLexLoopNoSkip(source, cursor, prefix_len, hash_level, multi_line) ==
    LET size       == Len(source)
        terminator == (IF multi_line THEN MultiLineIndicator ELSE <<DQ>>)
                          \o Repeat("#", hash_level)
        escape     == <<BS>> \o Repeat("#", hash_level)
        unterminated(upto) ==
            LexedStringLiteral(Substr(source, 0, upto),
                               DropFront(Substr(source, 0, upto), prefix_len),
                               prefix_len, hash_level, multi_line, FALSE)
    IN  IF cursor >= size THEN unterminated(size)
        ELSE LET c == At(source, cursor)
             IN  IF c = BS
                       /\ (Len(escape) = 1
                             \/ StartsWith(SubstrFrom(source, cursor), escape))
                 THEN LET after == cursor + Len(escape)
                      IN  IF after >= size \/ (~multi_line /\ At(source, after) = NL)
                          THEN unterminated(after)
                          ELSE StringLexLoopNoSkip(source, after, prefix_len,
                                             hash_level, multi_line)
                 ELSE IF c = NL /\ ~multi_line
                 THEN unterminated(cursor)
                 ELSE IF c = DQ
                       /\ (Len(terminator) = 1
                             \/ StartsWith(SubstrFrom(source, cursor), terminator))
                 THEN LexedStringLiteral(
                          Substr(source, 0, cursor + Len(terminator)),
                          Substr(source, prefix_len, cursor - prefix_len),
                          prefix_len, hash_level, multi_line, TRUE)
                 ELSE StringLexLoopNoSkip(source, cursor + 1, prefix_len,
                                    hash_level, multi_line)

\* The scanning loop of Lex from offset cursor: the literal it returns.
RECURSIVE StringLexLoop(_, _, _, _, _)
StringLexLoop(source, cursor, prefix_len, hash_level, multi_line) ==
    LET size       == Len(source)
        terminator == (IF multi_line THEN MultiLineIndicator ELSE <<DQ>>)
                          \o Repeat("#", hash_level)
        escape     == <<BS>> \o Repeat("#", hash_level)
        unterminated(upto) ==
            LexedStringLiteral(Substr(source, 0, upto),
                               DropFront(Substr(source, 0, upto), prefix_len),
                               prefix_len, hash_level, multi_line, FALSE)
    IN  IF cursor >= size THEN unterminated(size)
        ELSE LET c == At(source, cursor)
             IN  IF c = BS
                       /\ (Len(escape) = 1
                             \/ StartsWith(SubstrFrom(source, cursor), escape))
                 THEN LET after == cursor + Len(escape)
                      IN  IF after >= size \/ (~multi_line /\ At(source, after) = NL)
                          THEN unterminated(after)
                          ELSE StringLexLoop(source, after + 1, prefix_len,
                                             hash_level, multi_line)
                 ELSE IF c = NL /\ ~multi_line
                 THEN unterminated(cursor)
                 ELSE IF c = DQ
                       /\ (Len(terminator) = 1
                             \/ StartsWith(SubstrFrom(source, cursor), terminator))
                 THEN LexedStringLiteral(
                          Substr(source, 0, cursor + Len(terminator)),
                          Substr(source, prefix_len, cursor - prefix_len),
                          prefix_len, hash_level, multi_line, TRUE)
                 ELSE StringLexLoop(source, cursor + 1, prefix_len,
                                    hash_level, multi_line)

StringLex(source) ==
    LET hash_level == FindFirstNotOf(source, 0, {"#"})
        multi_line_prefix_size ==
            GetMultiLineStringLiteralPrefixSize(SubstrFrom(source, hash_level))
        multi_line == multi_line_prefix_size > 0
    IN  IF multi_line
        THEN StringLexLoop(source, hash_level + multi_line_prefix_size,
                           hash_level + multi_line_prefix_size,
                           hash_level, TRUE)
        ELSE IF hash_level < Len(source) /\ At(source, hash_level) = DQ
        THEN StringLexLoop(source, hash_level + 1, hash_level + 1,
                           hash_level, FALSE)
        ELSE NoStringLiteral

---------------------------------------------------------------------------
(* LexedStringLiteral::ComputeValue *)

\* The byte of a character of the source text.
Ord(c) ==
    CASE c = TAB -> 9 [] c = NL -> 10 [] c = " " -> 32 [] c = DQ -> 34
      [] c = "#" -> 35 [] c = "'" -> 39 [] c = "+" -> 43 [] c = "-" -> 45
      [] c = "." -> 46 [] c \in DecimalDigits -> 48 + CharVal(c)
      [] c \in UpperLetters -> 55 + CharVal(c)
      [] c = BS -> 92 [] c = "_" -> 95
      [] c \in {"a", "b", "c", "d", "e", "f"} -> 87 + CharVal(c)
      [] c = "h" -> 104 [] c = "l" -> 108 [] c = "n" -> 110 [] c = "o" -> 111
      [] c = "p" -> 112 [] c = "r" -> 114 [] c = "t" -> 116
      [] c = "u" -> 117 [] c = "x" -> 120 [] c = "{" -> 123 [] c = "}" -> 125

\* The bytes of a text.
Bytes(text) == [i \in 1..Len(text) |-> Ord(text[i])]

\* ComputeIndentOfFinalLine: the offsets [start, end) in text of the indent of
\* its final line.  The text of a multi-line literal contains a newline.
RECURSIVE IndentWalk(_, _, _)
IndentWalk(text, i, indent_end) ==
    IF i < 0 THEN [start |-> 0, end |-> 0, unreachable |-> TRUE]
    ELSE IF At(text, i) = NL
    THEN [start |-> i + 1, end |-> indent_end, unreachable |-> FALSE]
    ELSE IndentWalk(text, i - 1, IF ~IsSpace(At(text, i)) THEN i ELSE indent_end)

ComputeIndentOfFinalLine(text) == IndentWalk(text, Len(text) - 1, Len(text))

\* CheckIndent: the indent and the diagnostics it emits.
CheckIndent(lit) ==
    LET where == ComputeIndentOfFinalLine(lit.text)
    IN  [indent |-> Substr(lit.text, where.start, where.end - where.start),
         unreachable |-> where.unreachable,
         diags |-> IF where.end # lit.content_begin + Len(lit.content)
                   THEN <<Diag("ContentBeforeStringTerminator", where.end, 0)>>
                   ELSE <<>>]

\* CanLexInteger is declared in Cocktail/Lexer/LexHelpers.h; it refuses only
\* digit sequences far longer than any text of this model.
CanLexInteger(digits) == TRUE

WithoutLeadingZeros(digits) == SubstrFrom(digits, FindFirstNotOf(digits, 0, {"0"}))

\* llvm::ConvertUTF32toUTF8 of one code point that is no surrogate and at
\* most 0x10FFFF.
Utf8(cp) ==
    IF cp < 128 THEN <<cp>>
    ELSE IF cp < 2048 THEN <<192 + (cp \div 64), 128 + (cp % 64)>>
    ELSE IF cp < 65536
    THEN <<224 + (cp \div 4096), 128 + ((cp \div 64) % 64), 128 + (cp % 64)>>
    ELSE <<240 + (cp \div 262144), 128 + ((cp \div 4096) % 64),
           128 + ((cp \div 64) % 64), 128 + (cp % 64)>>

\* ExpandUnicodeEscapeSequence: whether it succeeds, the bytes it appends and
\* the diagnostics it emits; at is the offset of digits.begin().  More than
\* 6 significant digits exceed 0x10FFFF (and more than 8 overflow the
\* unsigned of getAsInteger): both give UnicodeEscapeTooLarge.
ExpandUnicodeEscapeSequence(digits, at) ==
    LET significant == WithoutLeadingZeros(digits)
        code_point  == Accumulate(significant, 16, 0)
    IN  IF ~CanLexInteger(digits)
        THEN [ok |-> FALSE, bytes |-> <<>>, diags |-> <<>>]
        ELSE IF Len(significant) > 6 \/ code_point > 1114111
        THEN [ok |-> FALSE, bytes |-> <<>>,
              diags |-> <<Diag("UnicodeEscapeTooLarge", at, 0)>>]
        ELSE IF code_point >= 55296 /\ code_point < 57344
        THEN [ok |-> FALSE, bytes |-> <<>>,
              diags |-> <<Diag("UnicodeEscapeSurrogate", at, 0)>>]
        ELSE [ok |-> TRUE, bytes |-> Utf8(code_point), diags |-> <<>>]

\* The state of the expansion: the content not yet consumed, the offset in
\* the literal's text of its first character, the bytes produced and the
\* diagnostics emitted so far, and whether a COCKTAIL_CHECK has failed.
ExpandStart(lit) ==
    [contents |-> lit.content, off |-> lit.content_begin, result |-> <<>>,
     diags |-> <<>>, check_failed |-> FALSE]

\* st with its first n characters of content consumed.
Consume(st, n) ==
    [st EXCEPT !.contents = DropFront(@, n), !.off = @ + n]

Emit(st, kind, loc) == [st EXCEPT !.diags = Append(@, Diag(kind, loc, 0))]

Produce(st, bytes) == [st EXCEPT !.result = @ \o bytes]

SimpleEscapes == {"t", "n", "r", DQ, "'", BS, "0"}

\* Mutant: \r gives a line feed.
SimpleEscapeByteCarriageReturnAsLineFeed(c) ==
    CASE c = "t" -> 9 [] c = "n" -> 10 [] c = "r" -> 10 [] c = DQ -> 34
      [] c = "'" -> 39 [] c = BS -> 92 [] c = "0" -> 0

SimpleEscapeByte(c) ==
    CASE c = "t" -> 9 [] c = "n" -> 10 [] c = "r" -> 13 [] c = DQ -> 34
      [] c = "'" -> 39 [] c = BS -> 92 [] c = "0" -> 0

\* ExpandAndConsumeEscapeSequence: st.contents starts right after the escape
\* introducer.
ExpandAndConsumeEscapeSequence(st) ==
    IF st.contents = <<>> THEN [st EXCEPT !.check_failed = TRUE]
    ELSE
    LET first   == Head(st.contents)
        s1      == Consume(st, 1)
        content == s1.contents
        \* the last statement of the function: result += first
        keep(s) == Produce(s, <<Ord(first)>>)
    IN  IF first \in SimpleEscapes \ {"0"}
        THEN Produce(s1, <<SimpleEscapeByte(first)>>)
        ELSE IF first = "0"
        THEN IF content # <<>> /\ IsDecimalDigit(Head(content))
             THEN Emit(Produce(s1, <<0>>), "DecimalEscapeSequence", s1.off)
             ELSE Produce(s1, <<0>>)
        ELSE IF first = "x"
        THEN IF Len(content) >= 2 /\ IsUpperHexDigit(content[1])
                  /\ IsUpperHexDigit(content[2])
             THEN Consume(Produce(s1, <<16 * CharVal(content[1])
                                           + CharVal(content[2])>>), 2)
             ELSE keep(Emit(s1, "HexadecimalEscapeMissingDigits", s1.off))
        ELSE IF first = "u"
        THEN LET braced    == StartsWith(content, <<"{">>)
                 remaining == DropFront(content, 1)
                 ndigits   == FindFirstNotOf(remaining, 0,
                                  DecimalDigits \cup UpperLetters)
                 digits    == Substr(remaining, 0, ndigits)
                 closed    == braced /\ ndigits > 0
                                 /\ StartsWith(DropFront(remaining, ndigits),
                                               <<"}">>)
                 u         == ExpandUnicodeEscapeSequence(digits, s1.off + 1)
             IN  IF closed
                 THEN IF u.ok
                      THEN Consume(Produce(s1, u.bytes), ndigits + 2)
                      ELSE keep([s1 EXCEPT !.diags = @ \o u.diags])
                 ELSE keep(Emit(s1, "UnicodeEscapeMissingBracedDigits", s1.off))
        ELSE keep(Emit(s1, "UnknownEscapeSequence", s1.off - 1))


\* Mutant: a blank line that lacks the indent is diagnosed too.
ConsumeIndentBlankDiagnosed(st, indent) ==
    IF StartsWith(st.contents, indent) THEN Consume(st, Len(indent))
    ELSE Emit(Consume(st, FindFirstNotOf(st.contents, 0, HorizontalWhitespace)),
              "MismatchedIndentInString", st.off)

\* Mutant: all leading horizontal whitespace of a line is consumed.
ConsumeIndentAllWhitespace(st, indent) ==
    Consume(st, FindFirstNotOf(st.contents, 0, HorizontalWhitespace))

\* The start of a line in ExpandEscapeSequencesAndRemoveIndent: the indent is
\* consumed, or else all leading horizontal whitespace, with a diagnostic
\* unless a newline follows.
ConsumeIndent(st, indent) ==
    IF StartsWith(st.contents, indent) THEN Consume(st, Len(indent))
    ELSE LET s1 == Consume(st, FindFirstNotOf(st.contents, 0, HorizontalWhitespace))
         IN  IF ~StartsWith(s1.contents, <<NL>>)
             THEN Emit(s1, "MismatchedIndentInString", st.off)
             ELSE s1

\* The bytes without the spaces and tabs at their end.
RECURSIVE WithoutTrailingSpace(_)
WithoutTrailingSpace(result) ==
    IF result # <<>> /\ result[Len(result)] \in {Ord(" "), Ord(TAB)}
    THEN WithoutTrailingSpace(SubSeq(result, 1, Len(result) - 1))
    ELSE result

\* The characters at which the regular text of a line ends: a newline, a
\* backslash, and horizontal whitespace other than a plain space.
EndsRegularText == {NL, BS} \cup (HorizontalWhitespace \ {" "})

\* Mutant: the whitespace found by the pass is not consumed.
ExpandPassWhitespaceKept(st, escape) ==
    LET end_of_regular_text == FindFirstOf(st.contents, 0, EndsRegularText)
        s1 == Consume(Produce(st, Bytes(Substr(st.contents, 0,
                                               end_of_regular_text))),
                      end_of_regular_text)
    IN  IF s1.contents = <<>>
        THEN [next |-> "return", st |-> s1]
        ELSE IF Head(s1.contents) = NL
        THEN [next |-> "line",
              st |-> Consume([s1 EXCEPT !.result =
                                 Append(WithoutTrailingSpace(@), Ord(NL))], 1)]
        ELSE IF IsHorizontalWhitespace(Head(s1.contents))
        THEN LET after_space ==
                     FindFirstNotOf(s1.contents, 0, HorizontalWhitespace)
                 kept == after_space = Len(s1.contents)
                             \/ At(s1.contents, after_space) # NL
                 s2 == IF kept
                       THEN Produce(
                              Emit(s1, "InvalidHorizontalWhitespaceInString",
                                   s1.off),
                              Bytes(Substr(s1.contents, 0, after_space)))
                       ELSE s1
             IN  IF Head(s1.contents) = " "
                 THEN [next |-> "abort", st |-> [s1 EXCEPT !.check_failed = TRUE]]
                 ELSE [next |-> "continue", st |-> s2]
        ELSE IF ~StartsWith(s1.contents, escape)
        THEN [next |-> "continue",
              st |-> Consume(Produce(s1, <<Ord(Head(s1.contents))>>), 1)]
        ELSE LET s2 == Consume(s1, Len(escape))
             IN  IF StartsWith(s2.contents, <<NL>>)
                 THEN [next |-> "line", st |-> Consume(s2, 1)]
                 ELSE LET s3 == ExpandAndConsumeEscapeSequence(s2)
                      IN  [next |-> IF s3.check_failed THEN "abort"
                                    ELSE "continue",
                           st |-> s3]

\* One pass of the inner loop of ExpandEscapeSequencesAndRemoveIndent: the
\* state after the pass, and how the pass ends: "return" (the function
\* returns), "line" (break: on to the next line), "continue", or "abort"
\* (a COCKTAIL_CHECK failed).
ExpandPass(st, escape) ==
    LET end_of_regular_text == FindFirstOf(st.contents, 0, EndsRegularText)
        s1 == Consume(Produce(st, Bytes(Substr(st.contents, 0,
                                               end_of_regular_text))),
                      end_of_regular_text)
    IN  IF s1.contents = <<>>
        THEN [next |-> "return", st |-> s1]
        ELSE IF Head(s1.contents) = NL
        THEN [next |-> "line",
              st |-> Consume([s1 EXCEPT !.result =
                                 Append(WithoutTrailingSpace(@), Ord(NL))], 1)]
        ELSE IF IsHorizontalWhitespace(Head(s1.contents))
        THEN LET after_space ==
                     FindFirstNotOf(s1.contents, 0, HorizontalWhitespace)
                 kept == after_space = Len(s1.contents)
                             \/ At(s1.contents, after_space) # NL
                 s2 == IF kept
                       THEN Produce(
                              Emit(s1, "InvalidHorizontalWhitespaceInString",
                                   s1.off),
                              Bytes(Substr(s1.contents, 0, after_space)))
                       ELSE s1
             IN  IF Head(s1.contents) = " "
                 THEN [next |-> "abort", st |-> [s1 EXCEPT !.check_failed = TRUE]]
                 ELSE [next |-> "continue", st |-> Consume(s2, after_space)]
        ELSE IF ~StartsWith(s1.contents, escape)
        THEN [next |-> "continue",
              st |-> Consume(Produce(s1, <<Ord(Head(s1.contents))>>), 1)]
        ELSE LET s2 == Consume(s1, Len(escape))
             IN  IF StartsWith(s2.contents, <<NL>>)
                 THEN [next |-> "line", st |-> Consume(s2, 1)]
                 ELSE LET s3 == ExpandAndConsumeEscapeSequence(s2)
                      IN  [next |-> IF s3.check_failed THEN "abort"
                                    ELSE "continue",
                           st |-> s3]

\* The two nested loops: passes follow one another until one returns or
\* aborts; a pass that ends a line is followed by the start of the next.
RECURSIVE ExpandLoop(_, _, _)
ExpandLoop(st, escape, indent) ==
    LET r == ExpandPass(st, escape)
    IN  IF r.next \in {"return", "abort"} THEN r.st
        ELSE IF r.next = "line"
        THEN ExpandLoop(ConsumeIndent(r.st, indent), escape, indent)
        ELSE ExpandLoop(r.st, escape, indent)

\* Mutant: the escape introducer is a backslash alone at every hash level.
ExpandEscapeSequencesAndRemoveIndentBareEscape(lit, indent) ==
    ExpandLoop(ConsumeIndent(ExpandStart(lit), indent), <<BS>>, indent)

\* ExpandEscapeSequencesAndRemoveIndent: the final state of the expansion.
ExpandEscapeSequencesAndRemoveIndent(lit, indent) ==
    ExpandLoop(ConsumeIndent(ExpandStart(lit), indent),
               <<BS>> \o Repeat("#", lit.hash_level), indent)

\* Mutant: the content is expanded whether or not the literal is terminated.
StringComputeValueUnchecked(lit) ==
    LET ci == IF lit.multi_line THEN CheckIndent(lit)
              ELSE [indent |-> <<>>, unreachable |-> FALSE, diags |-> <<>>]
        st == ExpandEscapeSequencesAndRemoveIndent(lit, ci.indent)
    IN  IF ci.unreachable
        THEN [value |-> <<>>, diags |-> <<>>, aborted |-> TRUE]
        ELSE [value |-> st.result, diags |-> ci.diags \o st.diags,
              aborted |-> st.check_failed]

\* LexedStringLiteral::ComputeValue: the bytes it returns, the diagnostics
\* it emits, and whether it stopped at a failed check instead of returning.
StringComputeValue(lit) ==
    IF ~lit.is_terminated
    THEN [value |-> <<>>, diags |-> <<>>, aborted |-> FALSE]
    ELSE LET ci == IF lit.multi_line THEN CheckIndent(lit)
                   ELSE [indent |-> <<>>, unreachable |-> FALSE, diags |-> <<>>]
             st == ExpandEscapeSequencesAndRemoveIndent(lit, ci.indent)
         IN  IF ci.unreachable
             THEN [value |-> <<>>, diags |-> <<>>, aborted |-> TRUE]
             ELSE [value |-> st.result, diags |-> ci.diags \o st.diags,
                   aborted |-> st.check_failed]

---------------------------------------------------------------------------
(* Inputs of the string analyzer *)

\* Most '#' before the opening quote.
MaxHashLevel == 1

\* Longest text after the opening of the literal.
MaxBodyLen == 5

StrAlphabet == {DQ, BS, "#", NL, "n"}

StrOpenings == {<<DQ>>, MultiLineIndicator \o <<NL>>}

\* Literals of every hash level and both forms, followed by any text.
StrRawInputs ==
    {Repeat("#", h) \o open \o body :
        h \in 0..MaxHashLevel,
        open \in StrOpenings,
        body \in Texts(StrAlphabet, 0, MaxBodyLen)}

\* The literals of the concrete scenarios, and texts that open no literal.
StrScenarioInputs ==
    {<<"#", DQ, "a", BS, "n", DQ, "#">>,
     <<DQ, "a", BS, "t", "b", DQ>>,
     <<DQ, DQ, DQ, NL, " ", " ", "n", NL, " ", " ", DQ, DQ, DQ>>,
     <<"#", "#", DQ, BS, "#", "n", DQ, "#", BS, "#", "#", "n", DQ, "#", "#">>,
     <<DQ, DQ, DQ, "n", NL, "n", NL, DQ, DQ, DQ>>,
     <<DQ, DQ, DQ, "n", DQ, DQ, DQ>>,
     <<>>, <<"n">>, <<"#">>, <<"#", "n", DQ>>}

StrInputs == StrRawInputs \cup StrScenarioInputs

---------------------------------------------------------------------------
(* The string analyzer as a state machine: Lex, then ComputeValue *)

StrInit ==
    /\ source_text \in StrInputs
    /\ pc = "StrLex"
    /\ literal = NoLiteral
    /\ value = NoValue
    /\ str_literal = NoStringLiteral
    /\ str_value = <<>>
    /\ diags = <<>>
    /\ node_impls = <<>>
    /\ has_errors = FALSE
    /\ tree_out = NoTreeOutput
    /\ expansion = NoExpansion

\* LexedStringLiteral::Lex(source_text)
StrLex ==
    /\ pc = "StrLex"
    /\ str_literal' = StringLex(source_text)
    /\ pc' = IF str_literal'.some THEN "StrComputeValue" ELSE "StrNone"
    /\ UNCHANGED <<source_text, literal, value, str_value, diags, tree_vars, expansion>>

\* str_literal.ComputeValue(emitter)
StrComputeValue ==
    /\ pc = "StrComputeValue"
    /\ \E r \in {StringComputeValue(str_literal)} :
           /\ str_value' = r.value
           /\ diags' = diags \o r.diags
           /\ pc' = IF r.aborted THEN "StrAborted" ELSE "StrDone"
    /\ UNCHANGED <<source_text, literal, value, str_literal, tree_vars, expansion>>

StrNext == StrLex \/ StrComputeValue

StrSpec == StrInit /\ [][StrNext]_vars

StrTypeOK ==
    /\ pc \in {"StrLex", "StrComputeValue", "StrNone", "StrDone"}
    /\ \A i \in 1..Len(str_value) : str_value[i] \in 0..255

---------------------------------------------------------------------------
(* Claims about the string analyzer *)

StrFinished == pc \in {"StrDone", "StrAborted"}

\* The quotes that end a literal of the given form, without the '#'.
ClosingQuotes(lit) == IF lit.multi_line THEN MultiLineIndicator ELSE <<DQ>>

\* The offset in the source text just after the literal's content.
ContentEnd(lit) == lit.content_begin + Len(lit.content)

\* The text has the characters of p at offset i.
HasAt(text, i, p) == StartsWith(SubstrFrom(text, i), p)

\* The offsets of the content at which a backslash with h '#' stands.
IntroducerOffsets(content, h) ==
    {i \in 0..(Len(content) - 1) : HasAt(content, i, <<BS>> \o Repeat("#", h))}

\* C9: a lexeme that is not terminated decodes to no bytes and emits no
\* diagnostic, whatever its content, hash level and form.
C9_UnterminatedIsEmpty ==
    (str_literal.some /\ ~str_literal.is_terminated
        /\ pc \notin {"StrLex", "StrComputeValue"})
        => /\ pc = "StrDone"
           /\ str_value = <<>>
           /\ diags = <<>>

C9_Witness ==
    /\ pc = "StrDone"
    /\ ~str_literal.is_terminated
    /\ str_literal.multi_line
    /\ str_literal.hash_level = 1
    /\ IntroducerOffsets(str_literal.content, 1) # {}
    /\ Len(str_literal.content) = MaxBodyLen

\* C10: with hash_level h >= 1,
\*  - Lex ends the literal only at closing quotes followed by h '#';
\*  - in Lex a backslash not followed by h '#' is no escape introducer: the
\*    character after it is not skipped, so closing quotes with h '#' right
\*    after such a backslash end the literal there at the latest;
\*  - ComputeValue copies such a backslash and treats the next character as
\*    ordinary content: a content without any introducer and without
\*    horizontal whitespace decodes to its own bytes, with no diagnostic
\*    about an escape; #"a\n"# decodes to the bytes a, \, n.
C10_RawModeNeedsHashes ==
    (str_literal.some /\ str_literal.hash_level >= 1) =>
        LET lit  == str_literal
            h    == lit.hash_level
            term == ClosingQuotes(lit) \o Repeat("#", h)
        IN  /\ lit.is_terminated
                => /\ HasAt(source_text, ContentEnd(lit), term)
                   /\ lit.text = Substr(source_text, 0, ContentEnd(lit) + Len(term))
            /\ \A i \in lit.content_begin..(Len(source_text) - 1) :
                  (/\ At(source_text, i) = BS
                   /\ ~HasAt(source_text, i + 1, Repeat("#", h))
                   /\ HasAt(source_text, i + 1, term))
                  => \/ lit.is_terminated /\ ContentEnd(lit) <= i + 1
                     \/ ~lit.is_terminated /\ Len(lit.text) <= i
            /\ (pc = "StrDone" /\ lit.is_terminated
                  /\ IntroducerOffsets(lit.content, h) = {}
                  /\ \A j \in 1..Len(lit.content) :
                        ~IsHorizontalWhitespace(lit.content[j]))
                => /\ str_value = Bytes(lit.content)
                   /\ DiagKinds \subseteq {"ContentBeforeStringTerminator"}
            /\ (pc = "StrDone"
                  /\ source_text = <<"#", DQ, "a", BS, "n", DQ, "#">>)
                => (str_value = <<97, 92, 110>> /\ diags = <<>>)

C10_Witness ==
    /\ pc = "StrDone"
    /\ source_text = <<"#", DQ, "a", BS, "n", DQ, "#">>
    /\ str_literal.is_terminated
    /\ str_literal.content = <<"a", BS, "n">>
    /\ str_value = <<97, 92, 110>>

\* A quote and a backslash inside a raw literal that the lexer walked over.
C10_WitnessLex ==
    /\ pc = "StrDone"
    /\ str_literal.hash_level = 1
    /\ str_literal.is_terminated
    /\ str_literal.content = <<BS, DQ>>
    /\ str_value = <<92, 34>>

---------------------------------------------------------------------------
(* Escape sequences: literals with one escape sequence *)

\* Most characters after the escaped character.
MaxEscFollow == 2

\* The characters written right after the escape introducer.
EscChars == {"t", "n", "r", DQ, "'", BS, "0", "x", "u", "a"}

EscFollowAlphabet == {"0", "1", "F", "a"}

\* The digits of the braced escapes \u{...}.
EscCodePoints ==
    {<<"4", "1">>, <<"0", "0", "4", "1">>, <<"F", "F">>, <<"8", "0", "0">>,
     <<"D", "7", "F", "F">>, <<"D", "8", "0", "0">>, <<"D", "F", "F", "F">>,
     <<"E", "0", "0", "0">>, <<"1", "0", "0", "0", "0">>,
     <<"1", "0", "F", "F", "F", "F">>, <<"1", "1", "0", "0", "0", "0">>,
     <<"0", "1", "1", "0", "0", "0", "0">>, <<"1", "0", "0", "0", "0", "0", "0">>,
     <<"F", "F", "F", "F", "F", "F", "F", "F", "F">>}

\* The text after the introducer: an escaped character and what follows it,
\* or a braced escape and what follows it.
EscTails ==
    {<<c>> \o t : c \in EscChars, t \in Texts(EscFollowAlphabet, 0, MaxEscFollow)}
        \cup {<<"u", "{">> \o d \o <<"}">> \o t :
                  d \in EscCodePoints, t \in {<<>>, <<"a">>}}
        \cup {<<"u", "{">> \o d : d \in {<<>>, <<"4", "1">>, <<"a">>}}

\* Terminated literals of both forms and every hash level whose content is
\* some text, one escape introducer and a tail.
EscInputs ==
    {Repeat("#", h) \o open \o pre \o <<BS>> \o Repeat("#", h) \o tail
         \o (IF open = <<DQ>> THEN <<DQ>> ELSE MultiLineIndicator)
         \o Repeat("#", h) :
        h \in 0..MaxHashLevel,
        open \in StrOpenings,
        pre \in {<<>>, <<"a">>},
        tail \in EscTails}
        \cup {<<DQ, "a", BS, "t", "b", DQ>>}

EscInit ==
    /\ source_text \in EscInputs
    /\ pc = "StrLex"
    /\ literal = NoLiteral
    /\ value = NoValue
    /\ str_literal = NoStringLiteral
    /\ str_value = <<>>
    /\ diags = <<>>
    /\ node_impls = <<>>
    /\ has_errors = FALSE
    /\ tree_out = NoTreeOutput
    /\ expansion = NoExpansion

EscSpec == EscInit /\ [][StrNext]_vars

\* The diagnostics emitted, without the one CheckIndent gives a multi-line
\* literal whose closing quotes follow content on the same line.
EscapeDiags ==
    SelectSeq(diags, LAMBDA d : d.kind # "ContentBeforeStringTerminator")

\* The byte each simple escape names: TAB, LF, CR, double quote, single
\* quote, backslash and NUL.
NamedByte(c) ==
    CASE c = "t" -> 9 [] c = "n" -> 10 [] c = "r" -> 13 [] c = DQ -> 34
      [] c = "'" -> 39 [] c = BS -> 92 [] c = "0" -> 0

\* No character of the text is one of chars.
Avoids(text, chars) == \A i \in 1..Len(text) : text[i] \notin chars

\* C11: in a terminated literal whose content is plain text, an escape
\* introducer, one of t n r " ' \ 0, and plain text, ComputeValue gives the
\* bytes of the text before, the one byte the escape names, and the bytes of
\* the text after: the introducer and that one character are consumed and
\* nothing else.  The only diagnostic is DecimalEscapeSequence, at the digit,
\* when \0 is followed by a decimal digit; the NUL byte is appended all the
\* same.  "a\tb" decodes to a, 0x09, b.
C11_SimpleEscapes ==
    (pc = "StrDone" /\ str_literal.is_terminated) =>
        LET lit     == str_literal
            content == lit.content
            intro   == <<BS>> \o Repeat("#", lit.hash_level)
            k       == FindFirstOf(content, 0, {BS})
            c_at    == k + Len(intro)
            post    == SubstrFrom(content, c_at + 1)
        IN  /\ (/\ k < Len(content)
                /\ HasAt(content, k, intro)
                /\ c_at < Len(content)
                /\ At(content, c_at) \in {"t", "n", "r", DQ, "'", BS, "0"}
                /\ Avoids(content, {TAB, NL, " "})
                /\ Avoids(post, {BS}))
               => /\ str_value = Bytes(Substr(content, 0, k))
                                    \o <<NamedByte(At(content, c_at))>>
                                    \o Bytes(post)
                  /\ EscapeDiags =
                        IF At(content, c_at) = "0" /\ post # <<>>
                              /\ post[1] \in DecimalDigits
                        THEN <<Diag("DecimalEscapeSequence",
                                    lit.content_begin + c_at + 1, 0)>>
                        ELSE <<>>
            /\ source_text = <<DQ, "a", BS, "t", "b", DQ>>
                  => (str_value = <<97, 9, 98>> /\ diags = <<>>)

C11_Witness ==
    /\ pc = "StrDone"
    /\ str_literal.is_terminated
    /\ str_literal.hash_level = 1
    /\ str_literal.content = <<"a", BS, "#", "0", "1", "F">>
    /\ str_value = <<97, 0, 49, 70>>
    /\ CountDiags("DecimalEscapeSequence") = 1

\* Every simple escape has been decoded.
C11_WitnessCarriageReturn ==
    /\ pc = "StrDone"
    /\ str_literal.content = <<BS, "r", "a">>
    /\ str_value = <<13, 97>>

\* The digits of a braced escape without their leading zeros.
SignificantDigits(digits) ==
    SubstrFrom(digits, FindFirstNotOf(digits, 0, {"0"}))

\* The digits name a code point above 0x10FFFF.
AboveUnicode(digits) ==
    \/ Len(SignificantDigits(digits)) > 6
    \/ DigitsValue(SignificantDigits(digits), 16) > 1114111

\* The digits name a code point of the surrogate range [0xD800, 0xE000).
InSurrogateRange(digits) ==
    /\ ~AboveUnicode(digits)
    /\ DigitsValue(SignificantDigits(digits), 16) >= 55296
    /\ DigitsValue(SignificantDigits(digits), 16) < 57344

\* C12: in a terminated literal whose content is plain text, an introducer,
\* u{H...} with uppercase hexadecimal digits that name a code point above
\* 0x10FFFF or a surrogate, and plain text, ComputeValue emits
\* UnicodeEscapeTooLarge or UnicodeEscapeSurrogate at the digits, and the
\* escape sequence adds no byte: the value is the bytes of the text before
\* and of the text after.
C12_InvalidUnicodeEscapeAddsNothing ==
    (pc = "StrDone" /\ str_literal.is_terminated) =>
        LET lit     == str_literal
            content == lit.content
            intro   == <<BS>> \o Repeat("#", lit.hash_level)
            k       == FindFirstOf(content, 0, {BS})
            d_at    == k + Len(intro) + 2
            close   == FindFirstOf(content, d_at, {"}"})
            digits  == Substr(content, d_at, close - d_at)
            post    == SubstrFrom(content, close + 1)
        IN  (/\ k < Len(content)
             /\ HasAt(content, k, intro \o <<"u", "{">>)
             /\ close < Len(content)
             /\ digits # <<>>
             /\ \A i \in 1..Len(digits) : IsUpperHexDigit(digits[i])
             /\ AboveUnicode(digits) \/ InSurrogateRange(digits)
             /\ Avoids(content, {TAB, NL, " "})
             /\ Avoids(post, {BS}))
            => /\ EscapeDiags =
                     <<Diag(IF AboveUnicode(digits) THEN "UnicodeEscapeTooLarge"
                            ELSE "UnicodeEscapeSurrogate",
                            lit.content_begin + d_at, 0)>>
               /\ str_value = Bytes(Substr(content, 0, k)) \o Bytes(post)

---------------------------------------------------------------------------
(* Indentation: multi-line literals made of spaces and letters *)

\* Longest line of the content.
MaxLineLen == 3

\* Most lines before the closing line.
MaxLines == 2

\* Longest indent of the closing line.
MaxIndentLen == 2

\* A content line with its newline.
IndLines == {t \o <<NL>> : t \in Texts({" ", "n"}, 0, MaxLineLen)}

RECURSIVE IndBodies(_)
IndBodies(n) ==
    IF n = 0 THEN {<<>>}
    ELSE IndBodies(n - 1) \cup {b \o l : b \in IndBodies(n - 1), l \in IndLines}

\* The literals of the scenarios: the two-line literal with "  hello", tab
\* indents, lines longer than MaxLineLen and a raw literal.
IndScenarioInputs ==
    {MultiLineIndicator \o <<NL, " ", " ", "h", "e", "l", "l", "o", NL, " ", " ">>
         \o MultiLineIndicator,
     MultiLineIndicator \o <<NL, TAB, "n", NL, TAB>> \o MultiLineIndicator,
     MultiLineIndicator \o <<NL, " ", " ", "n", " ", " ", NL, " ", " ", " ", "n",
                             NL, " ", " ">> \o MultiLineIndicator,
     <<"#">> \o MultiLineIndicator \o <<NL, " ", "n", " ", NL, " ">>
         \o MultiLineIndicator \o <<"#">>}

\* Lines, then a closing line: its indent, possibly some content, and the
\* closing quotes.
IndInputs ==
    {MultiLineIndicator \o <<NL>> \o body \o indent \o last \o MultiLineIndicator :
        body \in IndBodies(MaxLines),
        indent \in Texts({" "}, 0, MaxIndentLen),
        last \in {<<>>, <<"n">>}}
        \cup IndScenarioInputs

IndInit ==
    /\ source_text \in IndInputs
    /\ pc = "StrLex"
    /\ literal = NoLiteral
    /\ value = NoValue
    /\ str_literal = NoStringLiteral
    /\ str_value = <<>>
    /\ diags = <<>>
    /\ node_impls = <<>>
    /\ has_errors = FALSE
    /\ tree_out = NoTreeOutput
    /\ expansion = NoExpansion

IndSpec == IndInit /\ [][StrNext]_vars

\* The offset just after the last newline of a text, 0 without a newline.
RECURSIVE AfterLastNewline(_)
AfterLastNewline(text) ==
    IF text = <<>> THEN 0
    ELSE IF text[Len(text)] = NL THEN Len(text)
    ELSE AfterLastNewline(SubSeq(text, 1, Len(text) - 1))

\* The whitespace at the start of the final line of a lexeme.
WrittenIndent(text) ==
    LET final == SubstrFrom(text, AfterLastNewline(text))
    IN  Substr(final, 0, FindFirstNotOf(final, 0, {" ", TAB}))

\* The lines of a content, the final one (after the last newline) included.
RECURSIVE SplitLines(_)
SplitLines(content) ==
    LET nl == FindFirstOf(content, 0, {NL})
    IN  IF nl = Len(content) THEN <<content>>
        ELSE <<Substr(content, 0, nl)>> \o SplitLines(SubstrFrom(content, nl + 1))

\* A line without the spaces at its end.
RECURSIVE WithoutTrailingSpaces(_)
WithoutTrailingSpaces(line) ==
    IF line # <<>> /\ line[Len(line)] = " "
    THEN WithoutTrailingSpaces(SubSeq(line, 1, Len(line) - 1))
    ELSE line

\* The bytes of lines i.. of a content whose lines all begin with an indent
\* of n characters: each line without the indent and, when a newline ends
\* it, without its trailing spaces and with the newline.
RECURSIVE Unindented(_, _, _)
Unindented(lines, i, n) ==
    IF i > Len(lines) THEN <<>>
    ELSE IF i = Len(lines) THEN Bytes(DropFront(lines[i], n))
    ELSE Bytes(WithoutTrailingSpaces(DropFront(lines[i], n))) \o <<10>>
             \o Unindented(lines, i + 1, n)

\* C13: for a terminated multi-line literal the indent is the whitespace
\* between the last newline of the lexeme and the first character of that
\* line that is no whitespace.  When every line of the content begins with
\* it (and has no backslash or tab after it), the value is the lines without
\* the indent, without the spaces before each newline, with every newline
\* kept, and MismatchedIndentInString is not emitted; no diagnostic at all
\* when the closing quotes follow the indent.  The lines "  hello" and
\* "  """ decode to "hello\n".
C13_IndentRemoved ==
    (pc = "StrDone" /\ str_literal.is_terminated /\ str_literal.multi_line) =>
        LET lit    == str_literal
            indent == WrittenIndent(lit.text)
            lines  == SplitLines(lit.content)
        IN  /\ CheckIndent(lit).indent = indent
            /\ (\A i \in 1..Len(lines) :
                   /\ StartsWith(lines[i], indent)
                   /\ Avoids(DropFront(lines[i], Len(indent)), {BS, TAB}))
                => /\ str_value = Unindented(lines, 1, Len(indent))
                   /\ "MismatchedIndentInString" \notin DiagKinds
                   /\ lines[Len(lines)] = indent => diags = <<>>
            /\ source_text = MultiLineIndicator
                    \o <<NL, " ", " ", "h", "e", "l", "l", "o", NL, " ", " ">>
                    \o MultiLineIndicator
                => (str_value = <<104, 101, 108, 108, 111, 10>> /\ diags = <<>>)

\* Two lines with more whitespace than the indent in front and spaces at the
\* end.
C13_Witness ==
    /\ pc = "StrDone"
    /\ str_literal.is_terminated
    /\ str_literal.multi_line
    /\ str_literal.content = <<" ", " ", "n", " ", " ", NL, " ", " ", " ", "n",
                               NL, " ", " ">>
    /\ str_value = <<110, 10, 32, 110, 10>>
    /\ diags = <<>>

C13_WitnessHello ==
    /\ pc = "StrDone"
    /\ str_value = <<104, 101, 108, 108, 111, 10>>
    /\ diags = <<>>

---------------------------------------------------------------------------
(* Order of the diagnostics *)

\* C14: the diagnostics of one ComputeValue, numeric or string, are emitted
\* from left to right: none is at a location before that of one emitted
\* earlier in the same invocation.
C14_DiagnosticsLeftToRight ==
    (pc \in {"NumDone", "StrDone"}) =>
        \A i, j \in 1..Len(diags) : i < j => diags[i].loc <= diags[j].loc

---------------------------------------------------------------------------
(* ParseTree (lib/Parser/ParseTree.cc) *)

\* A node of node_impls; nodes are numbered from 0 in postorder.
NodeImpl(subtree_size, has_error) ==
    [subtree_size |-> subtree_size, has_error |-> has_error]

\* node_impls[n.index].subtree_size
SubtreeSize(impls, n) == impls[n + 1].subtree_size

\* The operation returned; an iteration that reads node_impls outside the
\* array is undefined; one that never reaches its end does not return.
TreeOutput(op, n, status, nodes) ==
    [op |-> op, n |-> n, status |-> status, nodes |-> nodes, ok |-> FALSE,
     finished |-> FALSE, ancestors |-> <<>>, lines |-> <<>>,
     assert_failed |-> FALSE]

\* PostorderIterator: from the start index up to the end index, one node
\* after the other.  An end before the start is never reached.
PostorderWalk(range) ==
    IF range.start > range.end
    THEN [status |-> "Diverges", nodes |-> <<>>]
    ELSE [status |-> "Returned",
          nodes |-> [k \in 1..(range.end - range.start) |-> range.start + k - 1]]

\* ParseTree::Postorder(): the iterator range.
PostorderAll(impls) == [start |-> 0, end |-> Len(impls)]

\* Mutant: the range of Postorder(n) starts one node early.
PostorderStartsEarly(impls, n) ==
    LET end_index   == n + 1
        start_index == end_index - SubtreeSize(impls, n) - 1
    IN  [start |-> start_index, end |-> end_index]

\* ParseTree::Postorder(n): the iterator range.
Postorder(impls, n) ==
    LET end_index   == n + 1
        start_index == end_index - SubtreeSize(impls, n)
    IN  [start |-> start_index, end |-> end_index]

\* SiblingIterator: the node at cur is yielded, then the iterator steps back
\* by that node's subtree_size, until it is at the end index.
RECURSIVE SiblingWalk(_, _, _, _, _)
SiblingWalk(impls, cur, end, seen, acc) ==
    IF cur = end THEN [status |-> "Returned", nodes |-> acc]
    ELSE IF cur < 0 \/ cur >= Len(impls)
    THEN [status |-> "Undefined", nodes |-> Append(acc, cur)]
    ELSE IF cur \in seen
    THEN [status |-> "Diverges", nodes |-> acc]
    ELSE SiblingWalk(impls, cur - SubtreeSize(impls, cur), end,
                     seen \cup {cur}, Append(acc, cur))

\* Mutant: the children end one node before the subtree's first node.
ChildrenEndsEarly(impls, n) ==
    [start |-> n - 1, end |-> n - SubtreeSize(impls, n) - 1]

\* ParseTree::Children(n): the iterator range.
Children(impls, n) ==
    [start |-> n - 1, end |-> n - SubtreeSize(impls, n)]

\* ParseTree::Roots(): the iterator range.
Roots(impls) == [start |-> Len(impls) - 1, end |-> -1]

\* What iterating a sibling range may give.  After a read outside
\* node_impls the iteration may stop the program or go on and end with any
\* nodes after those already yielded; the model keeps the nodes yielded so
\* far and tells the outcomes apart by the status.
SiblingOutcomes(op, n, impls, range) ==
    LET w == SiblingWalk(impls, range.start, range.end, {}, <<>>)
    IN  IF w.status = "Undefined"
        THEN {TreeOutput(op, n, "Crashed", w.nodes),
              TreeOutput(op, n, "Undefined", w.nodes)}
        ELSE {TreeOutput(op, n, w.status, w.nodes)}

\* The inner loop of Verify at a leaf: ancestors whose subtree starts right
\* after next_index are popped.
RECURSIVE PopAncestors(_, _, _)
PopAncestors(impls, ancestors, next_index) ==
    IF ancestors = <<>> THEN ancestors
    ELSE LET parent_n == ancestors[Len(ancestors)]
         IN  IF parent_n - SubtreeSize(impls, parent_n) # next_index
             THEN ancestors
             ELSE PopAncestors(impls, SubSeq(ancestors, 1, Len(ancestors) - 1),
                               next_index)

\* Mutant: a subtree_size of 0 is taken for a leaf.
RECURSIVE VerifyWalkZeroIsLeaf(_, _, _, _)
VerifyWalkZeroIsLeaf(impls, tree_has_errors, n, ancestors) ==
    IF n < 0
    THEN [ok |-> ancestors = <<>>, finished |-> TRUE, ancestors |-> ancestors]
    ELSE LET n_impl == impls[n + 1]
             failed == [ok |-> FALSE, finished |-> FALSE, ancestors |-> ancestors]
         IN  IF n_impl.has_error /\ ~tree_has_errors THEN failed
             ELSE IF n_impl.subtree_size > 1
             THEN IF ancestors # <<>>
                     /\ LET parent_n == ancestors[Len(ancestors)]
                        IN  parent_n - SubtreeSize(impls, parent_n)
                                > n - n_impl.subtree_size
                  THEN failed
                  ELSE VerifyWalkZeroIsLeaf(impls, tree_has_errors, n - 1,
                                            Append(ancestors, n))
             ELSE IF n_impl.subtree_size < 0 THEN failed
             ELSE VerifyWalkZeroIsLeaf(impls, tree_has_errors, n - 1,
                                       PopAncestors(impls, ancestors, n - 1))

\* The loop of Verify over llvm::reverse(Postorder()) from node n down, and
\* the test after it: the value returned, whether the walk reached its end,
\* and the ancestor stack at the return.
RECURSIVE VerifyWalk(_, _, _, _)
VerifyWalk(impls, tree_has_errors, n, ancestors) ==
    IF n < 0
    THEN [ok |-> ancestors = <<>>, finished |-> TRUE, ancestors |-> ancestors]
    ELSE LET n_impl == impls[n + 1]
             failed == [ok |-> FALSE, finished |-> FALSE, ancestors |-> ancestors]
         IN  IF n_impl.has_error /\ ~tree_has_errors THEN failed
             ELSE IF n_impl.subtree_size > 1
             THEN IF ancestors # <<>>
                     /\ LET parent_n == ancestors[Len(ancestors)]
                        IN  parent_n - SubtreeSize(impls, parent_n)
                                > n - n_impl.subtree_size
                  THEN failed
                  ELSE VerifyWalk(impls, tree_has_errors, n - 1,
                                  Append(ancestors, n))
             ELSE IF n_impl.subtree_size < 1 THEN failed
             ELSE VerifyWalk(impls, tree_has_errors, n - 1,
                             PopAncestors(impls, ancestors, n - 1))

\* ParseTree::Verify
Verify(impls, tree_has_errors) ==
    VerifyWalk(impls, tree_has_errors, Len(impls) - 1, <<>>)

\* A line of the output of Print: the node, the spaces before it, whether
\* it ends with "children: [" and the "]}" that close it.
PrintedLine(n, indent, has_error, opens, closers) ==
    [node_index |-> n, indent |-> indent, has_error |-> has_error,
     opens |-> opens, closers |-> closers]

\* An entry of node_stack: the node and its depth.  above holds the nodes
\* whose children are being printed around it; it is not part of the
\* program's data and only tells when a node's subtree holds the node
\* itself, so that the loop never ends.
StackEntry(n, depth, above) == [n |-> n, depth |-> depth, above |-> above]

\* The children of a node as pushed on node_stack, in iteration order.
PushedChildren(nodes, depth, above) ==
    [k \in 1..Len(nodes) |-> StackEntry(nodes[k], depth, above)]

\* The spaces written before a node: two for every level of depth.
PrintIndent(depth) == 2 * depth

\* Mutant: after a leaf only one level is closed.
PrintClosersOneLevel(depth, next_depth) ==
    IF depth > next_depth THEN 1 ELSE 0

\* The "]}" written after a leaf: one for every level between its depth and
\* the depth of the next entry of the stack.
PrintClosers(depth, next_depth) == depth - next_depth

\* The while loop of Print.  asserts tells whether the build checks its
\* assertions: a failed assertion stops such a build ("Aborted"); a build
\* without them goes on, and its count of closers is undefined when the next
\* depth is greater than the depth of the leaf.
RECURSIVE PrintLoop(_, _, _, _)
PrintLoop(impls, node_stack, out, asserts) ==
    IF node_stack = <<>> THEN [out EXCEPT !.status = "Returned"]
    ELSE
    LET top    == node_stack[Len(node_stack)]
        rest   == SubSeq(node_stack, 1, Len(node_stack) - 1)
        n      == top.n
        depth  == top.depth
        n_impl == impls[n + 1]
        w      == SiblingWalk(impls, Children(impls, n).start,
                              Children(impls, n).end, {}, <<>>)
        next_depth == IF rest = <<>> THEN 0 ELSE rest[Len(rest)].depth
        opened == [out EXCEPT !.lines =
                      Append(@, PrintedLine(n, PrintIndent(depth),
                                            n_impl.has_error, TRUE, 0))]
        leaf(closers) ==
               [out EXCEPT
                   !.lines = Append(@, PrintedLine(n, PrintIndent(depth),
                                                   n_impl.has_error, FALSE,
                                                   closers)),
                   !.assert_failed = @ \/ n_impl.subtree_size # 1]
    IN  IF n_impl.subtree_size > 1
        THEN IF n \in top.above THEN [opened EXCEPT !.status = "Diverges"]
             ELSE IF w.status # "Returned"
             THEN [opened EXCEPT !.status = w.status]
             ELSE PrintLoop(impls,
                            rest \o PushedChildren(w.nodes, depth + 1,
                                                   top.above \cup {n}),
                            opened, asserts)
        ELSE IF n_impl.subtree_size # 1 /\ asserts
        THEN [out EXCEPT !.status = "Aborted", !.assert_failed = TRUE]
        ELSE IF next_depth > depth
        THEN [leaf(0) EXCEPT !.status = IF asserts THEN "Aborted"
                                        ELSE "Undefined",
                             !.assert_failed = TRUE]
        ELSE PrintLoop(impls, rest, leaf(PrintClosers(depth, next_depth)),
                       asserts)

\* ParseTree::Print: the lines between "[" and "]", and how the call ends.
PrintTree(impls, asserts) ==
    LET roots == SiblingWalk(impls, Roots(impls).start, Roots(impls).end,
                             {}, <<>>)
    IN  IF roots.status # "Returned"
        THEN TreeOutput("Print", -1, roots.status, <<>>)
        ELSE PrintLoop(impls, PushedChildren(roots.nodes, 0, {}),
                       TreeOutput("Print", -1, "Running", <<>>), asserts)

---------------------------------------------------------------------------
(* Parse trees the operations are applied to *)

\* Most nodes of a tree built node by node.
MaxNodes == 4

\* Most nodes of a node array with arbitrary subtree sizes.
MaxArbitraryNodes == 3

\* The first nodes of the root subtrees of a node array built so far.
RootStarts(impls) ==
    LET roots == SiblingWalk(impls, Len(impls) - 1, -1, {}, <<>>).nodes
    IN  {roots[i] - SubtreeSize(impls, roots[i]) + 1 : i \in 1..Len(roots)}

\* The node arrays a parser can build with at most k nodes: a node is
\* appended as a leaf, or as the parent of the last roots.
RECURSIVE BuiltTrees(_)
BuiltTrees(k) ==
    IF k = 0 THEN {<<>>}
    ELSE BuiltTrees(k - 1) \cup
         {Append(f, NodeImpl(sz, e)) :
             f \in {g \in BuiltTrees(k - 1) : Len(g) = k - 1},
             sz \in 1..k, e \in BOOLEAN}

\* Of those, the ones where each parent covers whole root subtrees.
WellBuiltTrees(k) ==
    {f \in BuiltTrees(k) :
        \A i \in 1..Len(f) :
            f[i].subtree_size = 1
                \/ i - f[i].subtree_size \in RootStarts(SubSeq(f, 1, i - 1))}

\* Node arrays with any subtree sizes, zero, negative and too large included.
ArbitraryTrees ==
    UNION {[1..k -> {NodeImpl(sz, FALSE) : sz \in -1..(MaxArbitraryNodes + 1)}] :
              k \in 0..MaxArbitraryNodes}

TreeInputs == WellBuiltTrees(MaxNodes) \cup ArbitraryTrees

TreeInit ==
    /\ node_impls \in TreeInputs
    /\ has_errors \in BOOLEAN
    /\ tree_out = NoTreeOutput
    /\ expansion = NoExpansion
    /\ pc = "Tree"
    /\ source_text = <<>>
    /\ literal = NoLiteral
    /\ value = NoValue
    /\ str_literal = NoStringLiteral
    /\ str_value = <<>>
    /\ diags = <<>>

literal_vars == <<source_text, literal, value, str_literal, str_value, diags>>

\* tree.Verify()
TreeVerify ==
    /\ pc = "Tree"
    /\ LET v == Verify(node_impls, has_errors)
       IN  tree_out' = [TreeOutput("Verify", -1, "Returned", <<>>) EXCEPT
                           !.ok = v.ok, !.finished = v.finished,
                           !.ancestors = v.ancestors]
    /\ UNCHANGED <<pc, node_impls, has_errors, literal_vars, expansion>>

\* for (Node n : tree.Postorder())
TreePostorderAll ==
    /\ pc = "Tree"
    /\ LET w == PostorderWalk(PostorderAll(node_impls))
       IN  tree_out' = TreeOutput("PostorderAll", -1, w.status, w.nodes)
    /\ UNCHANGED <<pc, node_impls, has_errors, literal_vars, expansion>>

\* for (Node m : tree.Postorder(n))
TreePostorder ==
    /\ pc = "Tree"
    /\ \E n \in 0..(Len(node_impls) - 1) :
          LET w == PostorderWalk(Postorder(node_impls, n))
          IN  tree_out' = TreeOutput("Postorder", n, w.status, w.nodes)
    /\ UNCHANGED <<pc, node_impls, has_errors, literal_vars, expansion>>

\* for (Node m : tree.Children(n))
TreeChildren ==
    /\ pc = "Tree"
    /\ \E n \in 0..(Len(node_impls) - 1) :
          tree_out' \in SiblingOutcomes("Children", n, node_impls,
                                        Children(node_impls, n))
    /\ UNCHANGED <<pc, node_impls, has_errors, literal_vars, expansion>>

\* for (Node n : tree.Roots())
TreeRoots ==
    /\ pc = "Tree"
    /\ tree_out' \in SiblingOutcomes("Roots", -1, node_impls, Roots(node_impls))
    /\ UNCHANGED <<pc, node_impls, has_errors, literal_vars, expansion>>

\* tree.Print(output), in a build with or without assertions.  A read
\* outside node_impls may stop the program or not.
TreePrint ==
    /\ pc = "Tree"
    /\ \E asserts \in BOOLEAN :
          \E p \in {PrintTree(node_impls, asserts)} :
              tree_out' \in IF p.status = "Undefined"
                            THEN {p, [p EXCEPT !.status = "Crashed"]}
                            ELSE {p}
    /\ UNCHANGED <<pc, node_impls, has_errors, literal_vars, expansion>>

TreeNext ==
    \/ TreeVerify
    \/ TreePostorderAll
    \/ TreePostorder
    \/ TreeChildren
    \/ TreeRoots
    \/ TreePrint

TreeSpec == TreeInit /\ [][TreeNext]_vars

TreeTypeOK ==
    /\ pc = "Tree"
    /\ tree_out.op \in {"None", "Verify", "PostorderAll", "Postorder",
                        "Children", "Roots", "Print"}
    /\ tree_out.status \in {"None", "Returned", "Diverges", "Undefined",
                            "Crashed", "Aborted"}

---------------------------------------------------------------------------
(* Claims about the parse tree *)

\* The three leaves 0, 1, 2 under node 3.
ThreeLeavesUnderOne ==
    <<NodeImpl(1, FALSE), NodeImpl(1, FALSE), NodeImpl(1, FALSE),
      NodeImpl(4, FALSE)>>

\* The first index of the subtree of node i.
FirstOfSubtree(impls, i) == i - SubtreeSize(impls, i) + 1

\* The node whose subtree is the smallest one that holds node c besides c's
\* own; -1 for a root.
ParentOf(impls, c) ==
    LET above == {m \in (c + 1)..(Len(impls) - 1) : FirstOfSubtree(impls, m) <= c}
    IN  IF above = {} THEN -1
        ELSE CHOOSE m \in above : \A k \in above : m <= k

\* The elements of a set of numbers from the largest to the smallest.
RECURSIVE Descending(_)
Descending(set) ==
    IF set = {} THEN <<>>
    ELSE LET top == CHOOSE m \in set : \A k \in set : k <= m
         IN  <<top>> \o Descending(set \ {top})

\* The immediate children of node n (n = -1: the roots), right to left.
ChildrenRightToLeft(impls, n) ==
    Descending({c \in 0..(Len(impls) - 1) : ParentOf(impls, c) = n})

RECURSIVE SumOfSubtreeSizes(_, _)
SumOfSubtreeSizes(impls, nodes) ==
    IF nodes = <<>> THEN 0
    ELSE SubtreeSize(impls, Head(nodes)) + SumOfSubtreeSizes(impls, Tail(nodes))

\* C15: Postorder(n) iterates exactly the indices n - subtree_size(n) + 1
\* through n in increasing order: subtree_size(n) nodes, the last one n.
\* Postorder() iterates the indices 0 through N - 1.
C15_PostorderRange ==
    /\ (tree_out.op = "Postorder" /\ SubtreeSize(node_impls, tree_out.n) >= 1)
          => LET n  == tree_out.n
                 sz == SubtreeSize(node_impls, n)
             IN  /\ tree_out.status = "Returned"
                 /\ Len(tree_out.nodes) = sz
                 /\ \A k \in 1..sz : tree_out.nodes[k] = n - sz + k
                 /\ tree_out.nodes[sz] = n
    /\ tree_out.op = "PostorderAll"
          => /\ tree_out.status = "Returned"
             /\ tree_out.nodes = [k \in 1..Len(node_impls) |-> k - 1]

C15_Witness ==
    /\ tree_out.op = "Postorder"
    /\ Len(node_impls) = MaxNodes
    /\ tree_out.n = 2
    /\ tree_out.nodes = <<1, 2>>

C15_WitnessAll ==
    /\ tree_out.op = "PostorderAll"
    /\ tree_out.nodes = <<0, 1, 2, 3>>

\* C16: on a tree that Verify accepts, Children(n) starts at n - 1, steps
\* back by the subtree_size of the child it is at and ends exactly at
\* n - subtree_size(n), never beyond it; it yields the immediate children of
\* n from right to left, and their subtree sizes add up to
\* subtree_size(n) - 1.  Roots() yields the nodes without a parent the same
\* way.  With three leaves 0, 1, 2 under node 3 of size 4, Children(3) yields
\* 2, 1, 0 and Roots() yields 3 alone.
C16_ChildrenWalk ==
    Verify(node_impls, has_errors).ok =>
        /\ tree_out.op = "Children"
              => LET n     == tree_out.n
                     nodes == tree_out.nodes
                 IN  /\ tree_out.status = "Returned"
                     /\ nodes # <<>> => nodes[1] = n - 1
                     /\ \A k \in 1..(Len(nodes) - 1) :
                           nodes[k + 1] = nodes[k] - SubtreeSize(node_impls, nodes[k])
                     /\ \A k \in 1..Len(nodes) :
                           nodes[k] > n - SubtreeSize(node_impls, n)
                     /\ nodes = ChildrenRightToLeft(node_impls, n)
                     /\ SumOfSubtreeSizes(node_impls, nodes)
                           = SubtreeSize(node_impls, n) - 1
        /\ tree_out.op = "Roots"
              => /\ tree_out.status = "Returned"
                 /\ tree_out.nodes = ChildrenRightToLeft(node_impls, -1)
        /\ node_impls = ThreeLeavesUnderOne
              => /\ (tree_out.op = "Children" /\ tree_out.n = 3)
                       => tree_out.nodes = <<2, 1, 0>>
                 /\ tree_out.op = "Roots" => tree_out.nodes = <<3>>

\* Children of a node whose children have children themselves.
C16_Witness ==
    /\ Verify(node_impls, has_errors).ok
    /\ tree_out.op = "Children"
    /\ tree_out.n = 3
    /\ tree_out.nodes = <<2, 0>>

C16_WitnessRoots ==
    /\ node_impls = ThreeLeavesUnderOne
    /\ tree_out.op = "Roots"
    /\ tree_out.nodes = <<3>>

\* Every subtree_size is at least 1, every subtree lies inside the array,
\* and two subtrees that overlap are nested.
WellFormed(impls) ==
    /\ \A i \in 0..(Len(impls) - 1) :
          /\ SubtreeSize(impls, i) >= 1
          /\ FirstOfSubtree(impls, i) >= 0
    /\ \A i, j \in 0..(Len(impls) - 1) :
          (i < j /\ FirstOfSubtree(impls, j) <= i)
              => FirstOfSubtree(impls, j) <= FirstOfSubtree(impls, i)

C17_WitnessRejected ==
    /\ tree_out.op = "Verify"
    /\ ~tree_out.ok
    /\ tree_out.finished
    /\ tree_out.ancestors # <<>>

\* C18: on every tree that Verify accepts, has_errors is set exactly when
\* some node has has_error set.
C18_FlagsAgree ==
    (tree_out.op = "Verify" /\ tree_out.ok) =>
        (has_errors <=> \E i \in 1..Len(node_impls) : node_impls[i].has_error)

---------------------------------------------------------------------------
(* What Print writes for a verified tree *)

\* The number of nodes above node c.
RECURSIVE DepthOf(_, _)
DepthOf(impls, c) ==
    IF ParentOf(impls, c) = -1 THEN 0
    ELSE 1 + DepthOf(impls, ParentOf(impls, c))

\* The nodes in preorder with the children of a node in source order: a node
\* comes before the nodes of its subtree, and of two nodes neither of which
\* holds the other the one of lower index comes first.
ComesBefore(impls, a, b) ==
    IF FirstOfSubtree(impls, a) <= b /\ b < a THEN TRUE
    ELSE IF FirstOfSubtree(impls, b) <= a /\ a < b THEN FALSE
    ELSE a < b

\* The sum of the closers of lines i.. of an output.
RECURSIVE ClosersFrom(_, _)
ClosersFrom(lines, i) ==
    IF i > Len(lines) THEN 0
    ELSE lines[i].closers + ClosersFrom(lines, i + 1)

\* C25: for a tree Verify accepts, Print fails neither of its assertions,
\* in a build that checks them or not; it writes a line for every node
\* exactly once, in preorder with children in source order, each after two
\* spaces per level of depth, and as many "]}" as "children: [".
C25_PrintVerified ==
    (tree_out.op = "Print" /\ Verify(node_impls, has_errors).ok) =>
        LET lines == tree_out.lines
            N     == Len(node_impls)
        IN  /\ tree_out.status = "Returned"
            /\ ~tree_out.assert_failed
            /\ Len(lines) = N
            /\ \A n \in 0..(N - 1) :
                   Cardinality({i \in 1..Len(lines) : lines[i].node_index = n}) = 1
            /\ \A i, j \in 1..Len(lines) :
                   i < j => ComesBefore(node_impls, lines[i].node_index,
                                        lines[j].node_index)
            /\ \A i \in 1..Len(lines) :
                   /\ lines[i].indent = 2 * DepthOf(node_impls, lines[i].node_index)
                   /\ lines[i].opens <=>
                          SubtreeSize(node_impls, lines[i].node_index) > 1
                   /\ lines[i].has_error =
                          node_impls[lines[i].node_index + 1].has_error
            /\ ClosersFrom(lines, 1) =
                   Cardinality({i \in 1..Len(lines) : lines[i].opens})

\* A verified tree of depth 2 was printed: a leaf two levels down closed both
\* levels.
C25_Witness ==
    /\ tree_out.op = "Print"
    /\ Verify(node_impls, has_errors).ok
    /\ tree_out.status = "Returned"
    /\ Len(node_impls) = MaxNodes
    /\ \E i \in 1..Len(tree_out.lines) :
           tree_out.lines[i].indent = 4 /\ tree_out.lines[i].closers = 2

\* Three leaves under one node: the parent first, then the leaves in source
\* order.
C25_WitnessThreeLeaves ==
    /\ node_impls = ThreeLeavesUnderOne
    /\ tree_out.op = "Print"
    /\ tree_out.status = "Returned"
    /\ Len(tree_out.lines) = 4
    /\ tree_out.lines[1].node_index = 3
    /\ tree_out.lines[2].node_index = 0
    /\ tree_out.lines[4].node_index = 2
    /\ tree_out.lines[4].closers = 1

\* On a node array Verify rejects Print did not return.
C25_WitnessRejected ==
    /\ tree_out.op = "Print"
    /\ ~Verify(node_impls, has_errors).ok
    /\ tree_out.status \in {"Diverges", "Undefined", "Crashed"}

---------------------------------------------------------------------------
(* The lexeme Lex returns and its two offsets *)

\* The 0-based offsets of the radix points in a text.
RadixPoints(text) == {i \in 0..(Len(text) - 1) : At(text, i) = "."}

\* The 0-based offsets of the signs in a text.
Signs(text) == {i \in 0..(Len(text) - 1) : At(text, i) \in {"+", "-"}}

\* C19: Lex returns nothing exactly when the input is empty or does not
\* start with a decimal digit. Otherwise the lexeme is a non-empty prefix of
\* the input with at most one '.', every '.' in it is followed by an
\* alphanumeric character of the lexeme, radix_point <= exponent <= length,
\* radix_point is the length when the lexeme has no '.', and the exponent is
\* either the length (no marker) or lies strictly between radix_point and
\* the length (a marker was recorded).
C19_LexShape ==
    (pc \in {"NumComputeValue", "NumNone", "NumDone"}) =>
        LET text == literal.text
            n    == Len(text)
        IN  /\ ~literal.some <=>
                   (source_text = <<>> \/ At(source_text, 0) \notin DecimalDigits)
            /\ literal.some =>
                   /\ n > 0
                   /\ StartsWith(source_text, text)
                   /\ Cardinality(RadixPoints(text)) <= 1
                   /\ \A i \in RadixPoints(text) :
                          /\ i + 1 < n
                          /\ IsAlnum(At(text, i + 1))
                          /\ literal.radix_point = i
                   /\ literal.radix_point <= literal.exponent
                   /\ literal.exponent <= n
                   /\ RadixPoints(text) = {} => literal.radix_point = n
                   /\ \/ literal.exponent = n
                      \/ /\ literal.radix_point < literal.exponent
                         /\ literal.exponent < n
                         /\ IsLower(At(text, literal.exponent))

\* A lexeme with a radix point, a marker and a sign has been returned.
C19_Witness ==
    /\ pc = "NumComputeValue"
    /\ literal.some
    /\ RadixPoints(literal.text) # {}
    /\ literal.radix_point < literal.exponent
    /\ literal.exponent < Len(literal.text)
    /\ Signs(literal.text) # {}

\* Lex stopped before the end of the input, at a '.' it did not consume.
C19_WitnessProperPrefix ==
    /\ pc = "NumComputeValue"
    /\ literal.some
    /\ Len(literal.text) < Len(source_text)
    /\ At(source_text, Len(literal.text)) = "."

\* Lex returned nothing.
C19_WitnessNone == pc = "NumNone" /\ ~literal.some

\* The lowercase letters of a lexeme that lie after its radix point and
\* before its sign, if it has one.
MarkerCandidates(lit) ==
    {i \in (lit.radix_point + 1)..(Len(lit.text) - 1) :
        /\ IsLower(At(lit.text, i))
        /\ \A j \in Signs(lit.text) : i < j}

\* The last of a non-empty set of offsets.
LastOffset(S) == CHOOSE i \in S : \A j \in S : j <= i

\* C20: the exponent marker is the last lowercase letter after the radix
\* point and before the consumed sign, and there is none when no such letter
\* exists: a lexeme without a radix point has no marker and its letters are
\* validated as digits of the integer part (the whole lexeme is the integer
\* part, and a decimal one not starting with 0 is rejected with InvalidDigit at
\* its first letter), and a lowercase letter after the sign does not move the
\* marker.
C20_ExponentMarker ==
    /\ (pc \in {"NumComputeValue", "NumDone"}) =>
           /\ Cardinality(Signs(literal.text)) <= 1
           /\ \A j \in Signs(literal.text) : literal.exponent = j - 1
           /\ literal.exponent =
                  IF MarkerCandidates(literal) = {} THEN Len(literal.text)
                  ELSE LastOffset(MarkerCandidates(literal))
           /\ RadixPoints(literal.text) = {} =>
                  /\ literal.exponent = Len(literal.text)
                  /\ Parser(literal).fract_part = <<>>
                  /\ Parser(literal).exponent_part = <<>>
                  /\ Parser(literal).int_part =
                         DropFront(literal.text, Parser(literal).int_base)
    /\ (pc = "NumDone" /\ RadixPoints(literal.text) = {}
            /\ At(literal.text, 0) # "0"
            /\ \E i \in 1..Len(literal.text) : IsLower(literal.text[i])) =>
           /\ value.kind = "Unrecoverable"
           /\ \E i \in 1..Len(diags) :
                  /\ diags[i].kind = "InvalidDigit"
                  /\ diags[i].radix = 10
                  /\ At(literal.text, diags[i].loc) \notin DecimalDigits
                  /\ \E k \in diags[i].loc..(Len(literal.text) - 1) :
                         IsLower(At(literal.text, k))

\* A lowercase letter follows the consumed sign and the marker stayed on the
\* letter before the sign.
C20_Witness ==
    /\ pc = "NumDone"
    /\ \E j \in Signs(literal.text) :
           /\ literal.exponent = j - 1
           /\ \E i \in (j + 1)..(Len(literal.text) - 1) :
                  IsLower(At(literal.text, i))

\* 1e5 has been analysed.
C20_WitnessNoRadixPoint ==
    /\ pc = "NumDone"
    /\ source_text = <<"1", "e", "5">>
    /\ literal.text = source_text

\* Two lowercase letters follow the radix point: the marker is the last.
C20_WitnessLastLetter ==
    /\ pc = "NumDone"
    /\ Cardinality(MarkerCandidates(literal)) >= 2

---------------------------------------------------------------------------
(* The sign Lex consumes *)

\* C21: Lex consumes at most one '+' or '-', only directly after the
\* recorded exponent letter and directly before an alphanumeric character,
\* and its assertion "should only consume one + or -" holds on every input.
C21_OneSign ==
    (pc \in {"NumComputeValue", "NumNone", "NumDone"} /\ literal.some) =>
               /\ LexScan(source_text).assert_ok
               /\ Cardinality(Signs(literal.text)) <= 1
               /\ \A j \in Signs(literal.text) :
                      /\ j >= 1
                      /\ IsLower(At(literal.text, j - 1))
                      /\ literal.exponent = j - 1
                      /\ j + 1 < Len(literal.text)
                      /\ IsAlnum(At(literal.text, j + 1))

\* A sign was consumed and Lex stopped at a second sign.
C21_Witness ==
    /\ pc = "NumComputeValue"
    /\ Signs(literal.text) # {}
    /\ Len(literal.text) < Len(source_text)
    /\ At(source_text, Len(literal.text)) \in {"+", "-"}

\* A sign directly after the marker was left unconsumed: nothing
\* alphanumeric follows it.
C21_WitnessSignNotConsumed ==
    /\ pc = "NumComputeValue"
    /\ Signs(literal.text) = {}
    /\ literal.exponent = Len(literal.text) - 1
    /\ Len(literal.text) < Len(source_text)
    /\ At(source_text, Len(literal.text)) \in {"+", "-"}

---------------------------------------------------------------------------
(* Misplaced digit separators *)

\* The 0-based offsets of the separators in a part of the literal.
SeparatorsOf(part) == {k \in 0..(Len(part) - 1) : At(part, k) = "_"}

\* A separator that is first, last, or directly after another separator.
Misplaced(part, k) ==
    k = 0 \/ k = Len(part) - 1 \/ At(part, k - 1) = "_"

\* A separator strictly between two digits of the radix.
BetweenDigits(part, k, radix) ==
    /\ k > 0
    /\ k < Len(part) - 1
    /\ At(part, k - 1) \in ValidDigits(radix)
    /\ At(part, k + 1) \in ValidDigits(radix)

\* The InvalidDigitSeparator diagnostics emitted at an offset of the text.
SeparatorDiagsAt(loc) ==
    Cardinality({i \in 1..Len(diags) :
                    diags[i].kind = "InvalidDigitSeparator" /\ diags[i].loc = loc})

\* No character of the part before offset k is an invalid digit.
NoInvalidDigitBefore(part, k, radix) ==
    \A j \in 0..(k - 1) : At(part, j) \in ValidDigits(radix) \cup {"_"}

\* A part that passes CheckDigitSequence: digits and separators only, and at
\* least one digit.
WellWritten(part, radix) ==
    /\ NoInvalidDigitBefore(part, Len(part), radix)
    /\ \E j \in 0..(Len(part) - 1) : At(part, j) \in ValidDigits(radix)

\* The integer part is validated: the literal has no leading zero that
\* stands for an unknown base.
IntPartValidated(p) ==
    ~(p.radix = 10 /\ StartsWith(p.int_part, <<"0">>) /\ p.int_part # <<"0">>)

\* The fractional part is validated: the integer part was accepted.
FractPartValidated(p) ==
    IntPartValidated(p) /\ WellWritten(p.int_part, p.radix)

\* The exponent body is validated: the parts before it were accepted and
\* the exponent letter is the one of the radix.
ExponentPartValidated(p) ==
    /\ FractPartValidated(p)
    /\ WellWritten(p.fract_part, p.radix)
    /\ p.literal.exponent < Len(p.literal.text)
    /\ At(p.literal.text, p.literal.exponent) = (IF p.radix = 10 THEN "e" ELSE "p")

\* C22 as stated: in the integer part and the exponent body a misplaced '_'
\* gives one InvalidDigitSeparator and a '_' between two digits gives none;
\* every '_' of the fractional part gives one.
C22_MisplacedSeparators ==
    (pc = "NumDone") =>
        LET p == Parser(literal)
        IN  /\ \A k \in SeparatorsOf(p.int_part) :
                   /\ Misplaced(p.int_part, k) =>
                          SeparatorDiagsAt(p.int_base + k) = 1
                   /\ BetweenDigits(p.int_part, k, p.radix) =>
                          SeparatorDiagsAt(p.int_base + k) = 0
            /\ \A k \in SeparatorsOf(p.exponent_part) :
                   /\ Misplaced(p.exponent_part, k) =>
                          SeparatorDiagsAt(p.exp_base + k) = 1
                   /\ BetweenDigits(p.exponent_part, k, 10) =>
                          SeparatorDiagsAt(p.exp_base + k) = 0
            /\ \A k \in SeparatorsOf(p.fract_part) :
                   SeparatorDiagsAt(p.fract_base + k) = 1

\* C22 amended: the same, for the separators validation reaches: those of a
\* part that is validated, with no invalid digit before them in the part.
\* A '_' between two digits of the integer part or the exponent body never
\* gives a diagnostic.
C22_MisplacedSeparatorsWhenReached ==
    (pc = "NumDone") =>
        LET p == Parser(literal)
        IN  /\ \A k \in SeparatorsOf(p.int_part) :
                   /\ (/\ Misplaced(p.int_part, k)
                       /\ IntPartValidated(p)
                       /\ NoInvalidDigitBefore(p.int_part, k, p.radix)) =>
                          SeparatorDiagsAt(p.int_base + k) = 1
                   /\ BetweenDigits(p.int_part, k, p.radix) =>
                          SeparatorDiagsAt(p.int_base + k) = 0
            /\ \A k \in SeparatorsOf(p.exponent_part) :
                   /\ (/\ Misplaced(p.exponent_part, k)
                       /\ ExponentPartValidated(p)
                       /\ NoInvalidDigitBefore(p.exponent_part, k, 10)) =>
                          SeparatorDiagsAt(p.exp_base + k) = 1
                   /\ BetweenDigits(p.exponent_part, k, 10) =>
                          SeparatorDiagsAt(p.exp_base + k) = 0
            /\ \A k \in SeparatorsOf(p.fract_part) :
                   (/\ FractPartValidated(p)
                    /\ NoInvalidDigitBefore(p.fract_part, k, p.radix)) =>
                          SeparatorDiagsAt(p.fract_base + k) = 1

\* A separator at the end of a validated integer part was diagnosed.
C22_Witness ==
    /\ pc = "NumDone"
    /\ \E k \in SeparatorsOf(Parser(literal).int_part) :
           /\ k = Len(Parser(literal).int_part) - 1
           /\ k > 0
           /\ At(Parser(literal).int_part, k - 1) # "_"
           /\ SeparatorDiagsAt(Parser(literal).int_base + k) = 1

\* A separator of the fractional part was diagnosed.
C22_WitnessFraction ==
    /\ pc = "NumDone"
    /\ \E k \in SeparatorsOf(Parser(literal).fract_part) :
           /\ BetweenDigits(Parser(literal).fract_part, k, 10)
           /\ SeparatorDiagsAt(Parser(literal).fract_base + k) = 1

\* A misplaced separator of the exponent body was diagnosed.
C22_WitnessExponent ==
    /\ pc = "NumDone"
    /\ \E k \in SeparatorsOf(Parser(literal).exponent_part) :
           /\ Misplaced(Parser(literal).exponent_part, k)
           /\ SeparatorDiagsAt(Parser(literal).exp_base + k) = 1

\* A separator between two digits of the integer part passed in silence.
C22_WitnessBetweenDigits ==
    /\ pc = "NumDone"
    /\ value.kind = "Integer"
    /\ \E k \in SeparatorsOf(Parser(literal).int_part) :
           BetweenDigits(Parser(literal).int_part, k, 10)
    /\ \A i \in 1..Len(diags) : diags[i].kind # "InvalidDigitSeparator"

---------------------------------------------------------------------------
(* Where a string literal ends *)

\* The '#' characters a text starts with.
LeadingHashes(source) ==
    Cardinality({i \in 0..(Len(source) - 1) :
                    \A j \in 0..i : At(source, j) = "#"})

\* The text has a string opener: a double quote after its leading '#'.
HasOpener(source) ==
    /\ LeadingHashes(source) < Len(source)
    /\ At(source, LeadingHashes(source)) = DQ

\* The offsets of the newlines that end the opening line of a multi-line
\* literal: after the three quotes, with no '#' and no double quote between.
OpeningNewlines(source) ==
    LET h == LeadingHashes(source)
    IN  {n \in (h + 3)..(Len(source) - 1) :
            /\ \A j \in h..(h + 2) : At(source, j) = DQ
            /\ At(source, n) = NL
            /\ \A j \in (h + 3)..(n - 1) : At(source, j) \notin {"#", DQ, NL}}

IsMultiLine(source) == OpeningNewlines(source) # {}

\* The length of the opening prefix: up to and including the opening
\* newline, or the '#'s and one double quote.
OpeningPrefix(source) ==
    IF IsMultiLine(source)
    THEN (CHOOSE n \in OpeningNewlines(source) : TRUE) + 1
    ELSE LeadingHashes(source) + 1

\* The escape introducer and the terminator of a literal.
EscapeOf(source) == <<BS>> \o Repeat("#", LeadingHashes(source))

TerminatorOf(source) ==
    (IF IsMultiLine(source) THEN <<DQ, DQ, DQ>> ELSE <<DQ>>)
        \o Repeat("#", LeadingHashes(source))

\* word stands in source at offset i.
StandsAt(source, i, word) ==
    /\ i + Len(word) <= Len(source)
    /\ \A k \in 1..Len(word) : At(source, i + k - 1) = word[k]

\* The offsets a left-to-right scan from offset i looks at, when it skips
\* each escape introducer and the character after it.
RECURSIVE Scanned(_, _)
Scanned(source, i) ==
    IF i >= Len(source) THEN {}
    ELSE {i} \cup Scanned(source,
                          IF StandsAt(source, i, EscapeOf(source))
                          THEN i + Len(EscapeOf(source)) + 1
                          ELSE i + 1)

\* The scanned offsets where the terminator stands and before which a
\* simple string has no scanned newline and no newline right after a
\* scanned escape introducer.
Terminations(source) ==
    {t \in Scanned(source, OpeningPrefix(source)) :
        /\ StandsAt(source, t, TerminatorOf(source))
        /\ IsMultiLine(source) \/
               \A e \in Scanned(source, OpeningPrefix(source)) :
                   e < t =>
                       /\ At(source, e) # NL
                       /\ ~(/\ StandsAt(source, e, EscapeOf(source))
                            /\ StandsAt(source, e + Len(EscapeOf(source)), <<NL>>))}

\* C23: on a text with a string opener Lex reports a terminated literal
\* exactly when the scan finds the terminator (for a simple string before
\* any newline, also one right after an escape introducer); then the text is
\* the prefix ending with the first such terminator and the content is what
\* stands between the opening prefix and that terminator.  Three quotes not
\* followed by a newline before any '#' or double quote open a simple string.
C23_Terminated ==
    (pc \in {"StrComputeValue", "StrNone", "StrDone"}) =>
        /\ str_literal.some <=> HasOpener(source_text)
        /\ str_literal.some =>
               /\ str_literal.multi_line <=> IsMultiLine(source_text)
               /\ str_literal.hash_level = LeadingHashes(source_text)
               /\ str_literal.is_terminated <=> Terminations(source_text) # {}
               /\ str_literal.is_terminated =>
                      \E t \in Terminations(source_text) :
                          /\ \A u \in Terminations(source_text) : t <= u
                          /\ str_literal.text =
                                 SubSeq(source_text, 1,
                                        t + Len(TerminatorOf(source_text)))
                          /\ str_literal.content =
                                 SubSeq(source_text,
                                        OpeningPrefix(source_text) + 1, t)

\* A simple string ended by the quote after an escaped quote.
C23_Witness ==
    /\ pc = "StrComputeValue"
    /\ ~str_literal.multi_line
    /\ str_literal.is_terminated
    /\ \E i \in 1..(Len(str_literal.content) - 1) :
           str_literal.content[i] = BS /\ str_literal.content[i + 1] = DQ
    /\ Len(str_literal.text) < Len(source_text)

\* A simple string left unterminated by a newline right after a backslash.
C23_WitnessEscapedNewline ==
    /\ pc = "StrComputeValue"
    /\ ~str_literal.multi_line
    /\ ~str_literal.is_terminated
    /\ str_literal.text # <<>>
    /\ str_literal.text[Len(str_literal.text)] = BS
    /\ Len(str_literal.text) < Len(source_text)
    /\ At(source_text, Len(str_literal.text)) = NL
    /\ \E i \in 1..Len(source_text) :
           i > Len(str_literal.text) + 1 /\ source_text[i] = DQ

\* Three quotes followed by '#' before the newline: a simple string.
C23_WitnessThreeQuotesSimple ==
    /\ pc = "StrComputeValue"
    /\ StartsWith(source_text, <<DQ, DQ, DQ, "#", NL>>)
    /\ ~str_literal.multi_line
    /\ str_literal.text = <<DQ, DQ>>

\* A terminated multi-line literal whose opening line names a file type.
C23_WitnessMultiLine ==
    /\ pc = "StrComputeValue"
    /\ str_literal.multi_line
    /\ str_literal.is_terminated
    /\ StartsWith(source_text, <<DQ, DQ, DQ, "n", NL>>)

---------------------------------------------------------------------------
(* Lines that lack the indent *)

\* The offset in the lexeme of the first character of line i of its content.
RECURSIVE LineStart(_, _, _)
LineStart(lines, i, content_begin) ==
    IF i = 1 THEN content_begin
    ELSE LineStart(lines, i - 1, content_begin) + Len(lines[i - 1]) + 1

\* The horizontal whitespace a line starts with.
LeadingWhitespace(line) == FindFirstNotOf(line, 0, {" ", TAB})

\* Line i lacks the indent and is not blank: something other than the
\* newline follows its leading whitespace.
LacksIndent(lines, i, indent) ==
    /\ ~StartsWith(lines[i], indent)
    /\ LeadingWhitespace(lines[i]) < Len(lines[i]) \/ i = Len(lines)

\* The MismatchedIndentInString diagnostics emitted at an offset.
MismatchesAt(loc) ==
    Cardinality({k \in 1..Len(diags) :
                    diags[k].kind = "MismatchedIndentInString" /\ diags[k].loc = loc})

\* The bytes of lines i.. of a content: each line without the indent, or
\* without all its leading whitespace when it does not begin with the
\* indent; without its trailing spaces and with its newline when one ends it.
RECURSIVE Realigned(_, _, _)
Realigned(lines, i, indent) ==
    LET line == lines[i]
        rest == IF StartsWith(line, indent) THEN DropFront(line, Len(indent))
                ELSE DropFront(line, LeadingWhitespace(line))
    IN  IF i > Len(lines) THEN <<>>
        ELSE IF i = Len(lines) THEN Bytes(rest)
        ELSE Bytes(WithoutTrailingSpaces(rest)) \o <<10>>
                 \o Realigned(lines, i + 1, indent)

\* C24: a content line that does not start with the indent loses all its
\* leading horizontal whitespace and gets exactly one
\* MismatchedIndentInString, at its start, unless a newline follows the
\* whitespace (blank line): then nothing is emitted.  No other line gets
\* one, and the rest of every line is decoded either way.
C24_MismatchedIndent ==
    (pc = "StrDone" /\ str_literal.is_terminated /\ str_literal.multi_line) =>
        LET lit    == str_literal
            indent == WrittenIndent(lit.text)
            lines  == SplitLines(lit.content)
        IN  /\ \A i \in 1..Len(lines) :
                   MismatchesAt(LineStart(lines, i, lit.content_begin)) =
                       IF LacksIndent(lines, i, indent) THEN 1 ELSE 0
            /\ Cardinality({k \in 1..Len(diags) :
                               diags[k].kind = "MismatchedIndentInString"}) =
                   Cardinality({i \in 1..Len(lines) : LacksIndent(lines, i, indent)})
            /\ (\A i \in 1..Len(lines) : Avoids(lines[i], {BS, TAB}))
                   => str_value = Realigned(lines, 1, indent)

\* A line with less whitespace than the indent was diagnosed and decoded,
\* and a blank line without the indent was not diagnosed.
C24_Witness ==
    /\ pc = "StrDone"
    /\ str_literal.is_terminated
    /\ str_literal.multi_line
    /\ str_literal.content = <<" ", "n", NL, " ", NL, " ", " ">>
    /\ str_value = <<110, 10, 10>>
    /\ Len(diags) = 1
    /\ diags[1].kind = "MismatchedIndentInString"
    /\ diags[1].loc = str_literal.content_begin

\* Two lines were diagnosed, one diagnostic each.
C24_WitnessTwoLines ==
    /\ pc = "StrDone"
    /\ str_literal.is_terminated
    /\ str_literal.multi_line
    /\ Cardinality({k \in 1..Len(diags) :
                       diags[k].kind = "MismatchedIndentInString"}) = 2

---------------------------------------------------------------------------
(* Escape introducers in Lex and in ComputeValue *)

\* The offsets where the scan of Lex finds an escape introducer in the
\* content of a terminated literal.
IntroducersOf(lit, source) ==
    {e \in Scanned(source, lit.content_begin) :
        /\ e < lit.content_begin + Len(lit.content)
        /\ StandsAt(source, e, EscapeOf(source))}

\* C26: for a literal Lex reports as terminated, ComputeValue returns: it
\* never reaches ExpandAndConsumeEscapeSequence with nothing left of the
\* content (nor its other check), because every escape introducer Lex finds
\* in the content has a character of the content after it.
C26_EscapedCharacterPresent ==
    /\ (pc \in {"StrComputeValue", "StrDone", "StrAborted"}
            /\ str_literal.is_terminated) =>
           /\ \A e \in IntroducersOf(str_literal, source_text) :
                  e + Len(EscapeOf(source_text))
                      < str_literal.content_begin + Len(str_literal.content)
           /\ ~StringComputeValue(str_literal).aborted
    /\ pc # "StrAborted"

\* The content of a terminated literal ends with an escaped double quote.
C26_Witness ==
    /\ pc = "StrDone"
    /\ str_literal.is_terminated
    /\ str_literal.hash_level = 1
    /\ Len(str_literal.content) >= 3
    /\ SubSeq(str_literal.content, Len(str_literal.content) - 2,
              Len(str_literal.content)) = <<BS, "#", DQ>>
    /\ str_value # <<>>
    /\ str_value[Len(str_value)] = 34

\* A backslash that is no introducer at hash level 1 ends the content.
C26_WitnessBareBackslash ==
    /\ pc = "StrDone"
    /\ str_literal.is_terminated
    /\ str_literal.hash_level = 1
    /\ str_literal.content # <<>>
    /\ str_literal.content[Len(str_literal.content)] = BS
    /\ str_value[Len(str_value)] = 92

---------------------------------------------------------------------------
(* ExpandEscapeSequencesAndRemoveIndent pass by pass *)

\* Longest content the expansion is followed on.
MaxExpandLen == 3

\* Longest indent.
MaxExpandIndent == 1

ExpandAlphabet == {BS, "#", NL, TAB, " ", "x"}

\* Any content, with any hash level and any indent of spaces: the function
\* is entered and stands at the start of the first line.
ExpandInit ==
    /\ \E contents \in Texts(ExpandAlphabet, 0, MaxExpandLen),
          hash_level \in 0..MaxHashLevel,
          indent \in Texts({" "}, 0, MaxExpandIndent) :
           expansion =
               [phase |-> "LineStart",
                content |-> contents,
                escape |-> <<BS>> \o Repeat("#", hash_level),
                indent |-> indent,
                st |-> ExpandStart([content |-> contents, content_begin |-> 0])]
    /\ pc = "Expand"
    /\ source_text = <<>>
    /\ literal = NoLiteral
    /\ value = NoValue
    /\ str_literal = NoStringLiteral
    /\ str_value = <<>>
    /\ diags = <<>>
    /\ node_impls = <<>>
    /\ has_errors = FALSE
    /\ tree_out = NoTreeOutput

\* The start of the outer loop: the indent of the line is consumed.
ExpandLineStart ==
    /\ pc = "Expand"
    /\ expansion.phase = "LineStart"
    /\ expansion' = [expansion EXCEPT
                        !.phase = "Pass",
                        !.st = ConsumeIndent(expansion.st, expansion.indent)]
    /\ UNCHANGED <<pc, literal_vars, tree_vars>>

\* One pass of the inner loop.
ExpandInnerPass ==
    /\ pc = "Expand"
    /\ expansion.phase = "Pass"
    /\ \E r \in {ExpandPass(expansion.st, expansion.escape)} :
           expansion' = [expansion EXCEPT
                            !.st = r.st,
                            !.phase = CASE r.next = "return" -> "Returned"
                                        [] r.next = "abort" -> "Aborted"
                                        [] r.next = "line" -> "LineStart"
                                        [] OTHER -> "Pass"]
    /\ UNCHANGED <<pc, literal_vars, tree_vars>>

ExpandNext == ExpandLineStart \/ ExpandInnerPass

\* The loops run until the function returns or stops at a failed check.
ExpandSpec == ExpandInit /\ [][ExpandNext]_vars /\ WF_vars(ExpandNext)

ExpandTypeOK ==
    /\ pc = "Expand"
    /\ expansion.phase \in {"LineStart", "Pass", "Returned", "Aborted"}

\* The passes taken one by one end in the state ExpandLoop computes.
ExpandAgreesWithLoop ==
    expansion.phase \in {"Returned", "Aborted"} =>
        expansion.st =
            ExpandLoop(ConsumeIndent(
                           ExpandStart([content |-> expansion.content,
                                        content_begin |-> 0]),
                           expansion.indent),
                       expansion.escape, expansion.indent)

\* C27: ExpandEscapeSequencesAndRemoveIndent comes to an end for every
\* content, hash level and indent.  A pass of the inner loop returns exactly
\* when nothing but regular text is left (no newline, backslash or tab),
\* and then the remaining content is empty; every other pass removes at
\* least one character of the remaining content, the whitespace pass and the
\* passes with a failed escape included; the start of a line adds none.
C27_ExpandTerminates ==
    /\ [][/\ expansion.phase = "Pass" =>
                 /\ expansion'.phase = "Returned" <=>
                        Avoids(expansion.st.contents, {NL, BS, TAB})
                 /\ expansion'.phase = "Returned" =>
                        expansion'.st.contents = <<>>
                 /\ expansion'.phase # "Returned" =>
                        Len(expansion'.st.contents) < Len(expansion.st.contents)
          /\ expansion.phase = "LineStart" =>
                 Len(expansion'.st.contents) <= Len(expansion.st.contents)]_vars
    /\ [](expansion.phase = "Aborted" => expansion.st.check_failed)
    /\ <>(expansion.phase \in {"Returned", "Aborted"})

\* The function returned after a pass with a failed escape and a pass over
\* a tab.
C27_Witness ==
    /\ pc = "Expand"
    /\ expansion.phase = "Returned"
    /\ expansion.st.contents = <<>>
    /\ \E i, j \in 1..Len(expansion.st.diags) :
           /\ expansion.st.diags[i].kind = "HexadecimalEscapeMissingDigits"
           /\ expansion.st.diags[j].kind = "InvalidHorizontalWhitespaceInString"

\* The function stopped at its check: the content ended with an introducer.
C27_WitnessAborted ==
    /\ pc = "Expand"
    /\ expansion.phase = "Aborted"
    /\ expansion.content # <<>>
    /\ expansion.content[Len(expansion.content)] = BS

---------------------------------------------------------------------------
(* Both analyzers *)

Init == NumInit \/ StrInit

Next == NumNext \/ StrNext

Spec == Init /\ [][Next]_vars

===========================================================================
